---- MODULE Spec2Model ----
(***************************************************************************)
(* Google Sheets -> Shopify B2B sync (shopify_companies_sync).             *)
(*                                                                         *)
(* The model follows src/services/sheetsService.js (transformSheetData),   *)
(* src/services/syncService.js (validateSheetData, executeSync,            *)
(* processRow) and src/services/shopifyService.js (the find/create/update  *)
(* calls and the four getOrCreate / assign operations).                    *)
(*                                                                         *)
(* Strings are sequences of one-character strings, so that trim,           *)
(* toLowerCase, toUpperCase, includes and the e-mail pattern are computed. *)
(***************************************************************************)
EXTENDS Integers, Sequences, FiniteSets, TLC

\* ------------------------------------------------------------------
\* Bounds of the model
\* ------------------------------------------------------------------
MaxRows == 2

MaxFaults == 1

MaxRuns == 2

\* no step of processRow issues more remote calls than this
MaxStepCalls == 5

\* remote calls that may fail while two assignments race
RaceMaxFaults == 1

\* ------------------------------------------------------------------
\* Strings
\* ------------------------------------------------------------------
UpperLetters == <<"A","B","C","D","E","F","G","H","I","J","K","L","M",
                  "N","O","P","Q","R","S","T","U","V","W","X","Y","Z">>

LowerLetters == <<"a","b","c","d","e","f","g","h","i","j","k","l","m",
                  "n","o","p","q","r","s","t","u","v","w","x","y","z">>

LowerChar(c) ==
  IF \E k \in 1..Len(UpperLetters) : UpperLetters[k] = c
  THEN LowerLetters[CHOOSE k \in 1..Len(UpperLetters) : UpperLetters[k] = c]
  ELSE c

UpperChar(c) ==
  IF \E k \in 1..Len(LowerLetters) : LowerLetters[k] = c
  THEN UpperLetters[CHOOSE k \in 1..Len(LowerLetters) : LowerLetters[k] = c]
  ELSE c

\* variant: the letters are left as they are
toLowerCase_asIs(s) == s

toLowerCase(s) == [k \in 1..Len(s) |-> LowerChar(s[k])]

toUpperCase(s) == [k \in 1..Len(s) |-> UpperChar(s[k])]

IsSpace(c) == c = " "

RECURSIVE trimStart(_)
trimStart(s) ==
  IF s # <<>> /\ IsSpace(Head(s)) THEN trimStart(Tail(s)) ELSE s

RECURSIVE trimEnd(_)
trimEnd(s) ==
  IF s # <<>> /\ IsSpace(s[Len(s)]) THEN trimEnd(SubSeq(s, 1, Len(s) - 1)) ELSE s

trim(s) == trimEnd(trimStart(s))

includes(s, sub) ==
  \E k \in 1..(Len(s) - Len(sub) + 1) : SubSeq(s, k, k + Len(sub) - 1) = sub

\* a non-empty run of characters that are neither white space nor "@"
NoSpaceNoAt(s) ==
  /\ s # <<>>
  /\ \A k \in 1..Len(s) : ~IsSpace(s[k]) /\ s[k] # "@"

\* /^[^\s@]+@[^\s@]+\.[^\s@]+$/
emailRegexTest(s) ==
  \E a \in 1..Len(s) : \E d \in (a + 1)..Len(s) :
    /\ s[a] = "@"
    /\ s[d] = "."
    /\ NoSpaceNoAt(SubSeq(s, 1, a - 1))
    /\ NoSpaceNoAt(SubSeq(s, a + 1, d - 1))
    /\ NoSpaceNoAt(SubSeq(s, d + 1, Len(s)))

\* ------------------------------------------------------------------
\* String literals of the program and of the sheets the model reads
\* ------------------------------------------------------------------
MEMBER == <<"M","E","M","B","E","R">>

ADMIN == <<"A","D","M","I","N">>

USD == <<"U","S","D">>

UnitedStates == <<"U","n","i","t","e","d"," ","S","t","a","t","e","s">>

ExistingPrefix == <<"e","x","i","s","t","i","n","g","-">>

FirstLocationKey == <<"1">>

LocationMember == <<"L","o","c","a","t","i","o","n"," ","M","e","m","b","e","r">>

LocationAdmin == <<"L","o","c","a","t","i","o","n"," ","a","d","m","i","n">>

OrderingOnly == <<"O","r","d","e","r","i","n","g"," ","o","n","l","y">>

Lit_alreadyExists == <<"a","l","r","e","a","d","y"," ","e","x","i","s","t","s">>

Lit_duplicate == <<"d","u","p","l","i","c","a","t","e">>

Lit_alreadyAssigned == <<"a","l","r","e","a","d","y"," ","a","s","s","i","g","n","e","d">>

\* the store's userError for a second role assignment of a contact at a location
StoreAlreadyAssignedMessage ==
  <<"C","o","n","t","a","c","t"," ","a","l","r","e","a","d","y"," ","a","s","s","i","g","n","e","d">>

Lit_member == <<"m","e","m","b","e","r">>

Lit_location == <<"l","o","c","a","t","i","o","n">>

AlreadyAssociatedMessage == "Customer is already associated with a company contact"

\* cells of the sheet
Cell_A == <<"A">>

Cell_B == <<"B">>

Cell_2 == <<"2">>

Cell_admin == <<"a","d","m","i","n">>

Cell_mail1 == <<"J","@","x",".","c">>

Cell_mail2 == <<"k","@","x",".","c">>

Cell_badmail == <<"j","x">>

Cell_blank == <<" ">>

Cell_name == <<"N">>

\* ------------------------------------------------------------------
\* The sheet: raw rows (columns A, B, C, J, K, L, M, N, Q)
\* ------------------------------------------------------------------
RawRow(cid, cname, lid, mail, first, last, role) ==
  [companyId |-> cid, companyName |-> cname, locationId |-> lid,
   customerEmail |-> mail, customerFirstName |-> first,
   customerLastName |-> last, customerRole |-> role, currencyCode |-> <<>>,
   country |-> <<>>]

\* column N of a row: the customer of Cell_mail1 is an admin, the other cell is empty
RoleCellOf(mail) == IF mail = Cell_mail1 THEN Cell_admin ELSE <<>>

\* rows with every required cell filled and a well-formed e-mail
GoodRows ==
  { RawRow(cid, Cell_name, lid, mail, Cell_name, Cell_name, RoleCellOf(mail)) :
      cid \in {Cell_A, Cell_B}, lid \in {FirstLocationKey, Cell_2},
      mail \in {Cell_mail1, Cell_mail2} }

\* rows with one defect each
DefectRows ==
  { RawRow(Cell_A, <<>>, Cell_2, Cell_mail1, Cell_name, Cell_name, <<>>),
    RawRow(Cell_blank, Cell_name, Cell_2, Cell_mail1, Cell_name, Cell_name, <<>>),
    RawRow(Cell_A, Cell_name, Cell_2, Cell_badmail, Cell_name, Cell_name, <<>>) }

RawRows == GoodRows \cup DefectRows

Sheets == UNION { [1..n -> RawRows] : n \in 0..MaxRows }

\* ------------------------------------------------------------------
\* SheetsService.transformSheetData
\* ------------------------------------------------------------------
companyLocationKeyOf(cid, lid) == cid \o <<"|">> \o lid

\* one iteration of rows.forEach; acc holds structuredData,
\* companyLocationTracker and validationErrors
transformRow(acc, row, rowNumber) ==
  LET trimmedCompanyId == trim(row.companyId)
      trimmedCompanyName == trim(row.companyName)
      trimmedLocationId == trim(row.locationId)
      trimmedCustomerEmail == trim(row.customerEmail)
      trimmedCustomerFirstName == trim(row.customerFirstName)
      trimmedCustomerLastName == trim(row.customerLastName)
      missingFields ==
        { f \in {"companyId", "companyName", "locationId", "customerEmail",
                 "customerFirstName", "customerLastName"} : trim(row[f]) = <<>> }
      companyLocationKey == companyLocationKeyOf(trimmedCompanyId, trimmedLocationId)
      seen == companyLocationKey \in DOMAIN acc.companyLocationTracker
      tracker2 == IF seen THEN acc.companyLocationTracker
                  ELSE acc.companyLocationTracker @@ (companyLocationKey :> rowNumber)
      errors2 == IF seen THEN Append(acc.validationErrors, "duplicate")
                 ELSE acc.validationErrors
      role == toUpperCase(trim(row.customerRole))
      currency == toUpperCase(trim(row.currencyCode))
      trimmedCountry == trim(row.country)
      dataObject ==
        [companyId |-> trimmedCompanyId,
         companyName |-> trimmedCompanyName,
         locationId |-> trimmedLocationId,
         customerEmail |-> toLowerCase(trimmedCustomerEmail),
         customerFirstName |-> trimmedCustomerFirstName,
         customerLastName |-> trimmedCustomerLastName,
         customerRole |-> IF role = <<>> THEN MEMBER ELSE role,
         currencyCode |-> IF currency = <<>> THEN USD ELSE currency,
         country |-> IF trimmedCountry = <<>> THEN UnitedStates ELSE trimmedCountry,
         _sourceRow |-> rowNumber,
         _companyLocationKey |-> companyLocationKey,
         _isDuplicate |-> tracker2[companyLocationKey] # rowNumber]
  IN IF missingFields # {}
     THEN [acc EXCEPT !.validationErrors = Append(@, "missing")]
     ELSE IF ~emailRegexTest(trimmedCustomerEmail)
     THEN [acc EXCEPT !.companyLocationTracker = tracker2,
                      !.validationErrors = Append(errors2, "email")]
     ELSE [structuredData |-> Append(acc.structuredData, dataObject),
           companyLocationTracker |-> tracker2,
           validationErrors |-> errors2]

RECURSIVE transformFrom(_, _, _)
transformFrom(acc, rows, index) ==
  IF index > Len(rows) THEN acc
  ELSE transformFrom(transformRow(acc, rows[index], index + 1), rows, index + 1)

transformAll(rows) ==
  transformFrom([structuredData |-> <<>>, companyLocationTracker |-> <<>>,
                 validationErrors |-> <<>>], rows, 1)

\* variant: the rows are returned last row first
transformSheetData_reversed(rows) ==
  LET data == transformAll(rows).structuredData
  IN [k \in 1..Len(data) |-> data[Len(data) + 1 - k]]

\* only structuredData is returned; validationErrors is logged and dropped
transformSheetData(rows) == transformAll(rows).structuredData

\* ------------------------------------------------------------------
\* SyncService.validateSheetData
\* ------------------------------------------------------------------
validateSheetData(sheetData) ==
  LET idx == 1..Len(sheetData)
      missingCompanyIds == { k \in idx : trim(sheetData[k].companyId) = <<>> }
      missingLocationIds == { k \in idx : trim(sheetData[k].locationId) = <<>> }
      both(k) == sheetData[k].companyId # <<>> /\ sheetData[k].locationId # <<>>
      key(k) == companyLocationKeyOf(sheetData[k].companyId, sheetData[k].locationId)
      repeated == { k \in idx : both(k) /\ \E j \in 1..(k - 1) : both(j) /\ key(j) = key(k) }
      duplicateRows == { k \in idx : sheetData[k]._isDuplicate }
      errors == (IF missingCompanyIds # {} THEN 1 ELSE 0)
                + (IF missingLocationIds # {} THEN 1 ELSE 0)
                + Cardinality(repeated)
                + (IF duplicateRows # {} THEN 1 ELSE 0)
  IN [isValid |-> errors = 0, errors |-> errors, totalRows |-> Len(sheetData),
      duplicateRows |-> Cardinality(duplicateRows)]

\* ------------------------------------------------------------------
\* The Shopify store behind the GraphQL Admin API.
\*   companies[k]   : externalId, roles (names of its contact roles), modified
\*   customers[k]   : email, company (the company it is a contact of, 0 = none), modified
\*   locations[k]   : company, externalId (<<>> = none: the default location), modified
\*   assignments[k] : contact (a customer id), location, role
\* An entity's id is its index; modified says updatedAt differs from createdAt.
\* ------------------------------------------------------------------
CompaniesPageSize == 50

ContactsPageSize == 250

LocationsPageSize == 50

RoleAssignmentsPageSize == 50

ContactRolesPageSize == 10

Null == [null |-> TRUE]

\* a connection page: the first n of the indices S
FirstIndices(S, n) == { k \in S : Cardinality({ j \in S : j < k }) < n }

Min(S) == CHOOSE k \in S : \A j \in S : k <= j

createdAtOf(e) == "t0"

\* variant: the store never advances updatedAt
updatedAtOf_unchanged(e) == "t0"

updatedAtOf(e) == IF e.modified THEN "t1" ELSE "t0"

\* contact ids: the store's id of a contact is that of its customer;
\* processRow's placeholder is `existing-${customer.id}`
ContactId(customerId) == [prefix |-> <<>>, customer |-> customerId]

PlaceholderId(customerId) == [prefix |-> ExistingPrefix, customer |-> customerId]

\* variant: the id is compared with the prefix as a whole
startsWith_wholeId(id, prefix) == id.prefix = prefix /\ id.customer = 0

\* variant: no id is taken to carry the prefix
startsWith_never(id, prefix) == FALSE

startsWith(id, prefix) == id.prefix = prefix

\* ------------------------------------------------------------------
\* Results of the service's async functions: the context (store, calls
\* issued so far in this step, the calls of the step that fail), whether
\* the function threw, the error and the returned value
\* ------------------------------------------------------------------
NoError == [message |-> "", userErrors |-> <<>>]

RemoteFailure == [message |-> "RemoteFailure", userErrors |-> <<>>]

Return(ctx, v) == [ctx |-> ctx, threw |-> FALSE, error |-> NoError, ret |-> v]

Throw(ctx, e) == [ctx |-> ctx, threw |-> TRUE, error |-> e, ret |-> Null]

UserErrors(prefix, msgs) == [message |-> prefix, userErrors |-> msgs]

WithStore(ctx, st) == [ctx EXCEPT !.store = st]

\* ShopifyService.executeQuery: one POST; it throws on a transport error
\* or on GraphQL errors, and there is no retry
executeQuery(ctx, op, args) ==
  LET n == Len(ctx.calls) + 1
      failed == n \in ctx.faults
      ctx2 == [ctx EXCEPT !.calls = Append(@, [op |-> op, args |-> args, ok |-> ~failed])]
  IN IF failed THEN Throw(ctx2, RemoteFailure) ELSE Return(ctx2, Null)

\* ------------------------------------------------------------------
\* Companies
\* ------------------------------------------------------------------
companyNode(st, k) ==
  [id |-> k, externalId |-> st.companies[k].externalId,
   createdAt |-> createdAtOf(st.companies[k]), updatedAt |-> updatedAtOf(st.companies[k])]

\* the store's companyCreate: externalId is unique; a new company owns
\* the shop's default contact roles and one default location without externalId
StoreCompanyCreate(st, data) ==
  [st EXCEPT !.companies = Append(@, [externalId |-> data.companyId,
                                      roles |-> st.defaultRoles, modified |-> FALSE]),
             !.locations = Append(@, [company |-> Len(st.companies) + 1,
                                      externalId |-> <<>>, modified |-> FALSE])]

\* variant: the update clears the company's externalId
StoreCompanyUpdate_rekeyed(st, companyId) ==
  [st EXCEPT !.companies[companyId].modified = TRUE,
             !.companies[companyId].externalId = <<>>]

StoreCompanyUpdate(st, companyId) ==
  [st EXCEPT !.companies[companyId].modified = TRUE]

\* variant: the query is issued and no node of its page matches
findCompanyByExternalId_noMatch(ctx, externalId) ==
  LET r == executeQuery(ctx, "companies", [externalId |-> trim(externalId)])
  IN IF r.threw THEN r ELSE Return(r.ctx, Null)

\* a value that is not a string is written as a one-element sequence that
\* holds the name of its type
TypeNames == {"undefined", "number"}

\* typeof value === 'string'
isString(value) == \A k \in 1..Len(value) : value[k] \notin TypeNames

\* variant: only the empty string is refused, a blank one is searched for
findCompanyByExternalId_emptyOnly(ctx, externalId) ==
  IF ~isString(externalId) \/ externalId = <<>>
  THEN Throw(ctx, [message |-> "External ID cannot be empty or invalid", userErrors |-> <<>>])
  ELSE
    LET r == executeQuery(ctx, "companies", [externalId |-> externalId])
        st == r.ctx.store
        page == FirstIndices(1..Len(st.companies), CompaniesPageSize)
        matching == { k \in page : st.companies[k].externalId = trim(externalId) }
    IN IF r.threw THEN r
       ELSE IF matching # {} THEN Return(r.ctx, companyNode(st, Min(matching)))
       ELSE Return(r.ctx, Null)

findCompanyByExternalId(ctx, externalId) ==
  IF ~isString(externalId) \/ externalId = <<>> \/ trim(externalId) = <<>>
  THEN Throw(ctx, [message |-> "External ID cannot be empty or invalid", userErrors |-> <<>>])
  ELSE
    LET trimmedExternalId == trim(externalId)
        r == executeQuery(ctx, "companies", [externalId |-> trimmedExternalId])
        st == r.ctx.store
        page == FirstIndices(1..Len(st.companies), CompaniesPageSize)
        matching == { k \in page : st.companies[k].externalId = trimmedExternalId }
    IN IF r.threw THEN r
       ELSE IF matching # {} THEN Return(r.ctx, companyNode(st, Min(matching)))
       ELSE Return(r.ctx, Null)

buildCompanyMetafields(companyData) ==
  IF trim(companyData.currencyCode) # <<>> THEN <<"currency_code">> ELSE <<>>

setCompanyMetafields(ctx, companyId, companyData) ==
  IF Len(buildCompanyMetafields(companyData)) = 0 THEN Return(ctx, Null)
  ELSE executeQuery(ctx, "metafieldsSet", [company |-> companyId])

createCompany(ctx, companyData) ==
  LET r == executeQuery(ctx, "companyCreate", [externalId |-> companyData.companyId])
      st == r.ctx.store
      taken == \E k \in 1..Len(st.companies) : st.companies[k].externalId = companyData.companyId
      st2 == StoreCompanyCreate(st, companyData)
      company == companyNode(st2, Len(st2.companies))
      m == setCompanyMetafields(WithStore(r.ctx, st2), company.id, companyData)
  IN IF r.threw THEN r
     ELSE IF taken
     THEN Throw(r.ctx, UserErrors("Company creation errors", <<"External id has already been taken">>))
     ELSE IF m.threw THEN m
     ELSE Return(m.ctx, company)

\* the company returned by companyUpdate carries updatedAt and no createdAt
updateCompany(ctx, companyId, companyData) ==
  LET r == executeQuery(ctx, "companyUpdate", [company |-> companyId])
      st2 == StoreCompanyUpdate(r.ctx.store, companyId)
      company == [companyNode(st2, companyId) EXCEPT !.createdAt = "undefined"]
      m == setCompanyMetafields(WithStore(r.ctx, st2), company.id, companyData)
  IN IF r.threw THEN r
     ELSE IF m.threw THEN m
     ELSE Return(m.ctx, company)

getOrCreateCompany(ctx, data) ==
  LET f == findCompanyByExternalId(ctx, data.companyId)
  IN IF f.threw THEN f
     ELSE IF f.ret = Null THEN createCompany(f.ctx, data)
     ELSE updateCompany(f.ctx, f.ret.id, data)

\* ------------------------------------------------------------------
\* Customers and company contacts
\* ------------------------------------------------------------------
customerNode(st, k) ==
  [id |-> k, email |-> st.customers[k].email,
   createdAt |-> createdAtOf(st.customers[k]), updatedAt |-> updatedAtOf(st.customers[k])]

\* a contact as companyAssignCustomerAsContact / companyContactCreate return it:
\* its customer carries id, email, firstName, lastName and no timestamps
contactNode(st, k) ==
  [id |-> ContactId(k),
   customer |-> [id |-> k, email |-> st.customers[k].email,
                 createdAt |-> "undefined", updatedAt |-> "undefined"]]

\* the store's companyContactCreate: a new customer, contact of the company
StoreContactCreate(st, companyId, data) ==
  [st EXCEPT !.customers = Append(@, [email |-> data.customerEmail,
                                      company |-> companyId, modified |-> FALSE])]

\* the store's companyAssignCustomerAsContact
StoreAssignCustomerAsContact(st, companyId, customerId) ==
  [st EXCEPT !.customers[customerId].company = companyId]

findCustomerByEmail(ctx, email) ==
  LET r == executeQuery(ctx, "customers", [email |-> email])
      st == r.ctx.store
      found == { k \in 1..Len(st.customers) : toLowerCase(st.customers[k].email) = toLowerCase(email) }
  IN IF r.threw THEN r
     ELSE IF found # {} THEN Return(r.ctx, customerNode(st, Min(found)))
     ELSE Return(r.ctx, Null)

\* the catch block returns null: a failed query reads as "no contact"
findExistingCompanyContact(ctx, companyId, customerId) ==
  LET r == executeQuery(ctx, "companyContacts", [company |-> companyId])
      st == r.ctx.store
      page == FirstIndices({ k \in 1..Len(st.customers) : st.customers[k].company = companyId },
                           ContactsPageSize)
  IN IF r.threw THEN Return(r.ctx, Null)
     ELSE IF companyId \notin 1..Len(st.companies) THEN Return(r.ctx, Null)
     ELSE IF customerId \in page THEN Return(r.ctx, [id |-> ContactId(customerId),
                                                      customer |-> [id |-> customerId]])
     ELSE Return(r.ctx, Null)

associateCustomerWithCompany(ctx, companyId, customerId) ==
  LET r == executeQuery(ctx, "companyAssignCustomerAsContact",
                        [company |-> companyId, customer |-> customerId])
      st == r.ctx.store
      st2 == StoreAssignCustomerAsContact(st, companyId, customerId)
  IN IF r.threw THEN r
     ELSE IF st.customers[customerId].company # 0
     THEN Throw(r.ctx, UserErrors("Customer association errors", <<AlreadyAssociatedMessage>>))
     ELSE Return(WithStore(r.ctx, st2), contactNode(st2, customerId))

createCompanyContact(ctx, companyId, customerData) ==
  LET r == executeQuery(ctx, "companyContactCreate",
                        [company |-> companyId, email |-> customerData.customerEmail])
      st == r.ctx.store
      taken == \E k \in 1..Len(st.customers) :
                 toLowerCase(st.customers[k].email) = toLowerCase(customerData.customerEmail)
      st2 == StoreContactCreate(st, companyId, customerData)
  IN IF r.threw THEN r
     ELSE IF taken
     THEN Throw(r.ctx, UserErrors("Company contact creation errors", <<"Email has already been taken">>))
     ELSE Return(WithStore(r.ctx, st2), contactNode(st2, Len(st2.customers)))

\* variant: the message is compared as a whole
messageEquals(error, text) == error.message = text

\* error.message.includes('Customer is already associated with a company contact')
\* variant: every error is taken for the searched one
messageIncludes_any(error, text) == TRUE

messageIncludes(error, text) ==
  error.message = text \/ \E k \in 1..Len(error.userErrors) : error.userErrors[k] = text

getOrCreateCustomerAndContact(ctx, companyId, data) ==
  LET f == findCustomerByEmail(ctx, data.customerEmail)
      customer == f.ret
      e == findExistingCompanyContact(f.ctx, companyId, customer.id)
      a == associateCustomerWithCompany(e.ctx, companyId, customer.id)
      c == createCompanyContact(f.ctx, companyId, data)
  IN IF f.threw THEN f
     ELSE IF customer # Null
     THEN IF e.ret # Null
          THEN Return(e.ctx, [customer |-> customer, contact |-> e.ret])
          ELSE IF ~a.threw
          THEN Return(a.ctx, [customer |-> customer, contact |-> a.ret])
          ELSE IF messageIncludes(a.error, AlreadyAssociatedMessage)
          THEN Return(a.ctx, [customer |-> customer,
                              contact |-> [id |-> PlaceholderId(customer.id),
                                           customer |-> customer]])
          ELSE a
     ELSE IF c.threw THEN c
     ELSE Return(c.ctx, [customer |-> c.ret.customer, contact |-> c.ret])

\* ------------------------------------------------------------------
\* Company locations
\* ------------------------------------------------------------------
locationNode(st, k) ==
  [id |-> k, externalId |-> st.locations[k].externalId,
   createdAt |-> createdAtOf(st.locations[k]), updatedAt |-> updatedAtOf(st.locations[k])]

StoreLocationCreate(st, companyId, data) ==
  [st EXCEPT !.locations = Append(@, [company |-> companyId,
                                      externalId |-> data.locationId, modified |-> FALSE])]

\* the store's companyLocationUpdate: the input carries name, externalId and note
StoreLocationUpdate(st, locationId, data) ==
  [st EXCEPT !.locations[locationId].externalId = data.locationId,
             !.locations[locationId].modified = TRUE]

\* another location of the same company already has this externalId
ExternalIdTaken(st, companyId, externalId, except) ==
  \E k \in 1..Len(st.locations) :
    /\ k # except
    /\ st.locations[k].company = companyId
    /\ st.locations[k].externalId = externalId

\* variant: the page is not restricted to the company
locationsPage_anyCompany(st, companyId) ==
  FirstIndices(1..Len(st.locations), LocationsPageSize)

locationsPage(st, companyId) ==
  FirstIndices({ k \in 1..Len(st.locations) : st.locations[k].company = companyId },
               LocationsPageSize)

\* variant: the query is issued and no location of its page matches
findLocationByExternalId_noMatch(ctx, companyId, externalId) ==
  LET r == executeQuery(ctx, "companyLocations", [company |-> companyId])
  IN IF r.threw THEN r ELSE Return(r.ctx, Null)

findLocationByExternalId(ctx, companyId, externalId) ==
  LET r == executeQuery(ctx, "companyLocations", [company |-> companyId])
      st == r.ctx.store
      found == { k \in locationsPage(st, companyId) : st.locations[k].externalId = externalId }
  IN IF r.threw THEN r
     ELSE IF companyId \notin 1..Len(st.companies) THEN Return(r.ctx, Null)
     ELSE IF found # {} THEN Return(r.ctx, locationNode(st, Min(found)))
     ELSE Return(r.ctx, Null)

\* the catch block returns null: a failed query reads as "no default location"
findDefaultCompanyLocation(ctx, companyId) ==
  LET r == executeQuery(ctx, "companyDefaultLocation", [company |-> companyId])
      st == r.ctx.store
      found == { k \in locationsPage(st, companyId) : st.locations[k].externalId = <<>> }
  IN IF r.threw THEN Return(r.ctx, Null)
     ELSE IF companyId \notin 1..Len(st.companies) THEN Return(r.ctx, Null)
     ELSE IF found # {} THEN Return(r.ctx, locationNode(st, Min(found)))
     ELSE Return(r.ctx, Null)

buildLocationMetafields(locationData) ==
  IF trim(locationData.currencyCode) # <<>> THEN <<"location_currency_code">> ELSE <<>>

setLocationMetafields(ctx, locationId, locationData) ==
  IF Len(buildLocationMetafields(locationData)) = 0 THEN Return(ctx, Null)
  ELSE executeQuery(ctx, "metafieldsSet", [location |-> locationId])

updateCompanyLocation(ctx, locationId, locationData) ==
  LET r == executeQuery(ctx, "companyLocationUpdate",
                        [location |-> locationId, externalId |-> locationData.locationId])
      st == r.ctx.store
      st2 == StoreLocationUpdate(st, locationId, locationData)
      m == setLocationMetafields(WithStore(r.ctx, st2), locationId, locationData)
  IN IF r.threw THEN r
     ELSE IF ExternalIdTaken(st, st.locations[locationId].company, locationData.locationId, locationId)
     THEN Throw(r.ctx, UserErrors("Location update errors", <<"External id has already been taken">>))
     ELSE IF m.threw THEN m
     ELSE Return(m.ctx, locationNode(st2, locationId))

createCompanyLocation(ctx, companyId, locationData) ==
  LET r == executeQuery(ctx, "companyLocationCreate",
                        [company |-> companyId, externalId |-> locationData.locationId])
      st == r.ctx.store
      st2 == StoreLocationCreate(st, companyId, locationData)
      m == setLocationMetafields(WithStore(r.ctx, st2), Len(st2.locations), locationData)
  IN IF r.threw THEN r
     ELSE IF ExternalIdTaken(st, companyId, locationData.locationId, 0)
     THEN Throw(r.ctx, UserErrors("Location creation errors", <<"External id has already been taken">>))
     ELSE IF m.threw THEN m
     ELSE Return(m.ctx, locationNode(st2, Len(st2.locations)))

\* variant: the default location is reused whatever the row's locationId
getOrCreateLocation_anyKey(ctx, companyId, data) ==
  LET f == findLocationByExternalId(ctx, companyId, data.locationId)
      d == findDefaultCompanyLocation(f.ctx, companyId)
  IN IF f.threw THEN f
     ELSE IF f.ret = Null
     THEN IF d.ret # Null
          THEN updateCompanyLocation(d.ctx, d.ret.id, data)
          ELSE createCompanyLocation(d.ctx, companyId, data)
     ELSE updateCompanyLocation(f.ctx, f.ret.id, data)

getOrCreateLocation(ctx, companyId, data) ==
  LET f == findLocationByExternalId(ctx, companyId, data.locationId)
      d == findDefaultCompanyLocation(f.ctx, companyId)
  IN IF f.threw THEN f
     ELSE IF f.ret = Null
     THEN IF d.ret # Null /\ data.locationId = FirstLocationKey
          THEN updateCompanyLocation(d.ctx, d.ret.id, data)
          ELSE createCompanyLocation(d.ctx, companyId, data)
     ELSE updateCompanyLocation(f.ctx, f.ret.id, data)

\* ------------------------------------------------------------------
\* Role assignments
\* ------------------------------------------------------------------
StoreRoleCreate(st, companyId, roleName) ==
  [st EXCEPT !.companies[companyId].roles = Append(@, roleName)]

StoreAssignRole(st, contactId, locationId, roleName) ==
  [st EXCEPT !.assignments = Append(@, [contact |-> contactId.customer,
                                        location |-> locationId, role |-> roleName])]

\* the store knows no contact under a placeholder id
KnownContact(st, contactId) ==
  /\ contactId.prefix = <<>>
  /\ contactId.customer \in 1..Len(st.customers)
  /\ st.customers[contactId.customer].company # 0

\* the catch block returns false: a failed query reads as "not assigned"
isCustomerAssignedToLocation(ctx, companyContactId, locationId) ==
  LET r == executeQuery(ctx, "companyContactRoleAssignments", [contact |-> companyContactId])
      st == r.ctx.store
      page == FirstIndices({ k \in 1..Len(st.assignments) :
                               st.assignments[k].contact = companyContactId.customer },
                           RoleAssignmentsPageSize)
  IN IF r.threw THEN Return(r.ctx, FALSE)
     ELSE IF ~KnownContact(st, companyContactId) THEN Return(r.ctx, FALSE)
     ELSE Return(r.ctx, \E k \in page : st.assignments[k].location = locationId)

\* assignCustomerToLocation, first query: the company of the contact
getCompanyOfContact(ctx, companyContactId) ==
  LET r == executeQuery(ctx, "companyContact", [contact |-> companyContactId])
      st == r.ctx.store
  IN IF r.threw THEN r
     ELSE IF ~KnownContact(st, companyContactId)
     THEN Throw(r.ctx, [message |-> "Could not find company for the contact", userErrors |-> <<>>])
     ELSE Return(r.ctx, st.customers[companyContactId.customer].company)

\* getOrCreateCompanyContactRole, the query: an existing role or Null
findCompanyContactRoles(ctx, companyId) ==
  LET r == executeQuery(ctx, "companyContactRoles", [company |-> companyId])
      roles == r.ctx.store.companies[companyId].roles
      page == FirstIndices(1..Len(roles), ContactRolesPageSize)
      matching == { k \in page : \/ includes(toLowerCase(roles[k]), Lit_member)
                                 \/ includes(toLowerCase(roles[k]), Lit_location) }
  IN IF r.threw THEN r
     ELSE IF page = {} THEN Return(r.ctx, Null)
     ELSE IF matching # {} THEN Return(r.ctx, [id |-> Min(matching), name |-> roles[Min(matching)]])
     ELSE Return(r.ctx, [id |-> 1, name |-> roles[1]])

createCompanyContactRole(ctx, companyId, roleName) ==
  LET r == executeQuery(ctx, "companyContactRoleCreate", [company |-> companyId, name |-> roleName])
      st2 == StoreRoleCreate(r.ctx.store, companyId, roleName)
  IN IF r.threw THEN r
     ELSE Return(WithStore(r.ctx, st2),
                 [id |-> Len(st2.companies[companyId].roles), name |-> roleName])

getOrCreateCompanyContactRole(ctx, companyId, roleName) ==
  LET f == findCompanyContactRoles(ctx, companyId)
  IN IF f.threw THEN f
     ELSE IF f.ret # Null THEN f
     ELSE createCompanyContactRole(f.ctx, companyId, roleName)

\* variant: only the word 'duplicate' is looked for
isDuplicateError_duplicateOnly(message) ==
  includes(toLowerCase(message), Lit_duplicate)

isDuplicateError(message) ==
  \/ includes(toLowerCase(message), Lit_alreadyExists)
  \/ includes(toLowerCase(message), Lit_duplicate)
  \/ includes(toLowerCase(message), Lit_alreadyAssigned)

\* assignCustomerToLocation, the mutation and the reading of its userErrors
companyContactAssignRole(ctx, companyContactId, contactRole, locationId) ==
  LET r == executeQuery(ctx, "companyContactAssignRole",
                        [contact |-> companyContactId, location |-> locationId,
                         role |-> contactRole.name])
      st == r.ctx.store
      userErrors ==
        IF \E k \in 1..Len(st.assignments) :
             /\ st.assignments[k].contact = companyContactId.customer
             /\ st.assignments[k].location = locationId
        THEN <<StoreAlreadyAssignedMessage>>
        ELSE <<>>
      st2 == StoreAssignRole(st, companyContactId, locationId, contactRole.name)
  IN IF r.threw THEN r
     ELSE IF Len(userErrors) > 0
     THEN IF \E k \in 1..Len(userErrors) : isDuplicateError(userErrors[k])
          THEN Return(r.ctx, Null)
          ELSE Throw(r.ctx, UserErrors("Role assignment errors", userErrors))
     ELSE Return(WithStore(r.ctx, st2),
                 [id |-> Len(st2.assignments), location |-> locationId, role |-> contactRole])

\* roleName is accepted and not used: the role is the company's
\* existing or newly created 'Location Member' role
assignCustomerToLocation(ctx, companyContactId, locationId, roleName) ==
  LET c == getCompanyOfContact(ctx, companyContactId)
      role == getOrCreateCompanyContactRole(c.ctx, c.ret, LocationMember)
  IN IF c.threw THEN c
     ELSE IF role.threw THEN role
     ELSE companyContactAssignRole(role.ctx, companyContactId, role.ret, locationId)

assignCustomerToLocationIfNeeded(ctx, companyContactId, locationId, role) ==
  LET isAssigned == isCustomerAssignedToLocation(ctx, companyContactId, locationId)
  IN IF isAssigned.ret THEN Return(isAssigned.ctx, Null)
     ELSE assignCustomerToLocation(isAssigned.ctx, companyContactId, locationId, role)

\* ------------------------------------------------------------------
\* State
\* ------------------------------------------------------------------
VARIABLES
  rawRows,     \* the rows of the Google Sheet (A2:Y), the same for every run
  store,       \* the Shopify store
  pc,          \* where executeSync stands: "ready", "company", "customer",
               \* "location", "assignment", "returned", "thrown", "exited";
               \* for a single call of getOrCreateCompany: "call",
               \* "callReturned", "callThrew"
  sheetData,   \* executeSync's sheetData
  i,           \* executeSync's loop index, 1-based
  stats,       \* SyncService.stats
  company,     \* processRow's company
  pair,        \* processRow's { customer, contact }
  loc,         \* processRow's location
  faultsLeft,  \* remote calls that may still fail
  run,         \* the number of the current run of executeSync
  startStats,  \* stats when the current run began
  rowLog,      \* per row of the current run: its status and the remote calls issued for it
  prev,        \* the previous run: its final stats, its statistics at start, the store it left
  race,        \* two concurrent assignCustomerToLocationIfNeeded: their store and positions
  perm,        \* a batch processed in two orders of its rows, each on its own copy of the shop
  main         \* index.js main: DRY_RUN of the environment and where main stands:
               \* "start", "sync" (executeSync called), "returned" (dry run)

mainVars == <<rawRows, store, pc, sheetData, i, stats, company, pair, loc,
              faultsLeft, run, startStats, rowLog, prev, perm, main>>

vars == <<rawRows, store, pc, sheetData, i, stats, company, pair, loc,
          faultsLeft, run, startStats, rowLog, prev, race, perm, main>>

\* the values of DRY_RUN in the environment
DryRunValues == {"true", "false"}

\* main begins with the environment's DRY_RUN
MainStarts == [DRY_RUN : DryRunValues, pc : {"start"}]

\* main has called executeSync
MainSync == [DRY_RUN |-> "false", pc |-> "sync"]

ZeroStats ==
  [processed |-> 0, companiesCreated |-> 0, companiesFound |-> 0,
   customersCreated |-> 0, customersFound |-> 0, locationsCreated |-> 0,
   locationsFound |-> 0, contactsCreated |-> 0, locationAssignments |-> 0,
   errors |-> 0]

EmptyStore(roles) ==
  [companies |-> <<>>, customers |-> <<>>, locations |-> <<>>, assignments |-> <<>>,
   defaultRoles |-> roles]

\* a shop that already holds company B with its default location, and a customer
WithCompanyB(st, mail, linked, modified) ==
  [st EXCEPT !.companies = <<[externalId |-> Cell_B, roles |-> st.defaultRoles, modified |-> FALSE]>>,
             !.locations = <<[company |-> 1, externalId |-> <<>>, modified |-> FALSE]>>,
             !.customers = <<[email |-> mail, company |-> IF linked THEN 1 ELSE 0,
                              modified |-> modified]>>]

InitialStores ==
  { EmptyStore(<<>>),
    WithCompanyB(EmptyStore(<<LocationAdmin, OrderingOnly>>), toLowerCase(Cell_mail1), FALSE, FALSE),
    WithCompanyB(EmptyStore(<<LocationAdmin, OrderingOnly>>), toLowerCase(Cell_mail1), TRUE, TRUE) }

Init ==
  /\ rawRows \in Sheets
  /\ store \in InitialStores
  /\ pc = "ready"
  /\ sheetData = <<>>
  /\ i = 0
  /\ stats = ZeroStats
  /\ company = Null
  /\ pair = Null
  /\ loc = Null
  /\ faultsLeft = MaxFaults
  /\ run = 1
  /\ startStats = ZeroStats
  /\ rowLog = <<>>
  /\ prev = Null
  /\ perm = Null
  /\ race = Null
  /\ main \in MainStarts

\* ------------------------------------------------------------------
\* SyncService.executeSync and processRow
\* ------------------------------------------------------------------
FaultSets == { F \in SUBSET (1..MaxStepCalls) : Cardinality(F) <= faultsLeft }

Ctx(F) == [store |-> store, calls |-> <<>>, faults |-> F]

\* the history of one row of the run: its remote calls, the ids its steps
\* returned, the statistics before and after it, and what the store held
\* for it when its customer and location steps began
NewRowLog(k, st) ==
  [row |-> k, status |-> "RUNNING", calls |-> <<>>,
   statsBefore |-> st, statsAfter |-> st,
   companyId |-> 0, contactId |-> Null, locationId |-> 0,
   conflict |-> FALSE, reuse |-> FALSE, locationsBefore |-> 0, locationsAfter |-> 0,
   defaultLocation |-> 0, companiesBefore |-> {}, linked |-> FALSE, assigned |-> FALSE,
   known |-> FALSE, located |-> FALSE]

\* variant: no value of DRY_RUN makes a dry run
isDryRun_never(value) == FALSE

\* const isDryRun = process.env.DRY_RUN === 'true'
isDryRun(value) == value = "true"

\* main, the configuration being valid, up to its call of executeSync: a dry
\* run returns before the call
MainStart ==
  /\ main.pc = "start"
  /\ main' = [main EXCEPT !.pc = IF isDryRun(main.DRY_RUN) THEN "returned" ELSE "sync"]
  /\ UNCHANGED <<race, perm, rawRows, store, pc, sheetData, i, stats, company, pair, loc,
                 faultsLeft, run, startStats, rowLog, prev>>

\* executeSync up to the loop: read the sheet, return on no data, throw on invalid data
ExecuteSyncStart ==
  /\ main.pc = "sync"
  /\ pc = "ready"
  /\ LET data == transformSheetData(rawRows)
         validationResult == validateSheetData(data)
     IN /\ sheetData' = data
        /\ IF Len(data) = 0
           THEN pc' = "returned" /\ i' = 0 /\ rowLog' = <<>>
           ELSE IF ~validationResult.isValid
           THEN pc' = "thrown" /\ i' = 0 /\ rowLog' = <<>>
           ELSE pc' = "company" /\ i' = 1 /\ rowLog' = <<NewRowLog(1, stats)>>
  /\ UNCHANGED <<main, race, perm, rawRows, store, stats, company, pair, loc, faultsLeft, run, startStats, prev>>

\* what a step of processRow leaves behind: the store, the calls, the faults spent
StepEffects(r, F) ==
  /\ F \subseteq 1..Len(r.ctx.calls)
  /\ store' = r.ctx.store
  /\ faultsLeft' = faultsLeft - Cardinality(F)

Logged(log, r, status) ==
  [log EXCEPT ![i].calls = @ \o r.ctx.calls, ![i].status = status, ![i].statsAfter = stats']

\* the loop goes on to the next row, or executeSync returns its stats
NextRow(log) ==
  /\ i' = i + 1
  /\ company' = Null
  /\ pair' = Null
  /\ loc' = Null
  /\ IF i + 1 > Len(sheetData)
     THEN pc' = "returned" /\ rowLog' = log
     ELSE pc' = "company" /\ rowLog' = Append(log, NewRowLog(i + 1, stats'))

\* variant: a failed row is counted as processed as well
RowFailed_processed(log, r) ==
  /\ stats' = [stats EXCEPT !.errors = @ + 1, !.processed = @ + 1]
  /\ NextRow(Logged(log, r, "FAILED"))

\* variant: the catch block counts nothing
RowFailed_uncounted(log, r) ==
  /\ stats' = stats
  /\ NextRow(Logged(log, r, "FAILED"))

\* catch (error) { this.stats.errors++ }
RowFailed(log, r) ==
  /\ stats' = [stats EXCEPT !.errors = @ + 1]
  /\ NextRow(Logged(log, r, "FAILED"))

sameTimestamps(node) == node.createdAt = node.updatedAt

\* the companies of the store whose externalId is the row's companyId
CompaniesOf(st, data) ==
  { k \in 1..Len(st.companies) : st.companies[k].externalId = data.companyId }

\* Step 1: getOrCreateCompany and its counters
ProcessRowCompany ==
  /\ pc = "company"
  /\ \E F \in FaultSets :
       LET r == getOrCreateCompany(Ctx(F), sheetData[i])
           log == [rowLog EXCEPT ![i].companiesBefore = CompaniesOf(store, sheetData[i])]
       IN /\ StepEffects(r, F)
          /\ IF r.threw
             THEN RowFailed(log, r)
             ELSE /\ company' = r.ret
                  /\ stats' = IF sameTimestamps(r.ret)
                              THEN [stats EXCEPT !.companiesCreated = @ + 1]
                              ELSE [stats EXCEPT !.companiesFound = @ + 1]
                  /\ pc' = "customer"
                  /\ rowLog' = [Logged(log, r, "RUNNING") EXCEPT ![i].companyId = r.ret.id]
                  /\ UNCHANGED <<i, pair, loc>>
  /\ UNCHANGED <<main, race, perm, rawRows, sheetData, run, startStats, prev>>

\* the store holds the row's customer as a contact of another company
CustomerOfOtherCompany(st, data, companyId) ==
  \E k \in 1..Len(st.customers) :
    /\ toLowerCase(st.customers[k].email) = toLowerCase(data.customerEmail)
    /\ st.customers[k].company \notin {0, companyId}

\* the store holds the row's customer as a contact of the row's company
CustomerOfCompany(st, data, companyId) ==
  \E k \in 1..Len(st.customers) :
    /\ toLowerCase(st.customers[k].email) = toLowerCase(data.customerEmail)
    /\ st.customers[k].company = companyId

\* Step 2: getOrCreateCustomerAndContact and its counters
ProcessRowCustomer ==
  /\ pc = "customer"
  /\ \E F \in FaultSets :
       LET r == getOrCreateCustomerAndContact(Ctx(F), company.id, sheetData[i])
           log == [rowLog EXCEPT
                     ![i].conflict = CustomerOfOtherCompany(store, sheetData[i], company.id),
                     ![i].linked = CustomerOfCompany(store, sheetData[i], company.id),
                     ![i].known = \E u \in 1..Len(store.customers) :
                                    toLowerCase(store.customers[u].email)
                                      = toLowerCase(sheetData[i].customerEmail)]
       IN /\ StepEffects(r, F)
          /\ IF r.threw
             THEN RowFailed(log, r)
             ELSE /\ pair' = r.ret
                  /\ stats' = IF sameTimestamps(r.ret.customer)
                              THEN [stats EXCEPT !.customersCreated = @ + 1,
                                                 !.contactsCreated = @ + 1]
                              ELSE [stats EXCEPT !.customersFound = @ + 1,
                                                 !.contactsCreated = @ + 1]
                  /\ pc' = "location"
                  /\ rowLog' = [Logged(log, r, "RUNNING") EXCEPT ![i].contactId = r.ret.contact.id]
                  /\ UNCHANGED <<i, company, loc>>
  /\ UNCHANGED <<main, race, perm, rawRows, sheetData, run, startStats, prev>>

LocationsOf(st, companyId) ==
  { k \in 1..Len(st.locations) : st.locations[k].company = companyId }

\* the row's location is "1", the company has no such location and owns a
\* location without externalId
DefaultReuseCase(st, data, companyId) ==
  /\ data.locationId = FirstLocationKey
  /\ \A k \in LocationsOf(st, companyId) : st.locations[k].externalId # FirstLocationKey
  /\ \E k \in LocationsOf(st, companyId) : st.locations[k].externalId = <<>>

\* Step 3: getOrCreateLocation and its counters
ProcessRowLocation ==
  /\ pc = "location"
  /\ \E F \in FaultSets :
       LET r == getOrCreateLocation(Ctx(F), company.id, sheetData[i])
           reuse == DefaultReuseCase(store, sheetData[i], company.id)
           log == [rowLog EXCEPT
                     ![i].reuse = reuse,
                     ![i].located = \E k \in LocationsOf(store, company.id) :
                                      store.locations[k].externalId = sheetData[i].locationId,
                     ![i].locationsBefore = Cardinality(LocationsOf(store, company.id)),
                     ![i].defaultLocation =
                        IF reuse
                        THEN Min({ k \in LocationsOf(store, company.id) :
                                     store.locations[k].externalId = <<>> })
                        ELSE 0]
       IN /\ StepEffects(r, F)
          /\ IF r.threw
             THEN RowFailed(log, r)
             ELSE /\ loc' = r.ret
                  /\ stats' = IF sameTimestamps(r.ret)
                              THEN [stats EXCEPT !.locationsCreated = @ + 1]
                              ELSE [stats EXCEPT !.locationsFound = @ + 1]
                  /\ pc' = "assignment"
                  /\ rowLog' = [Logged(log, r, "RUNNING") EXCEPT
                                  ![i].locationId = r.ret.id,
                                  ![i].locationsAfter =
                                     Cardinality(LocationsOf(r.ctx.store, company.id))]
                  /\ UNCHANGED <<i, company, pair>>
  /\ UNCHANGED <<main, race, perm, rawRows, sheetData, run, startStats, prev>>

\* the store holds an assignment of the contact to the location
AssignmentHeld(st, contactId, locationId) ==
  \E k \in 1..Len(st.assignments) :
    /\ st.assignments[k].contact = contactId.customer
    /\ st.assignments[k].location = locationId
    /\ contactId.prefix = <<>>

\* Step 4: the assignment unless the contact is the placeholder; then
\* executeSync counts the row as processed
ProcessRowAssignment ==
  /\ pc = "assignment"
  /\ \E F \in FaultSets :
       LET skip == pair.contact = Null \/ loc = Null
                   \/ startsWith(pair.contact.id, ExistingPrefix)
           r == IF skip THEN Return(Ctx(F), Null)
                ELSE assignCustomerToLocationIfNeeded(Ctx(F), pair.contact.id, loc.id,
                                                      sheetData[i].customerRole)
           log == [rowLog EXCEPT ![i].assigned = AssignmentHeld(store, pair.contact.id, loc.id)]
       IN /\ StepEffects(r, F)
          /\ IF r.threw
             THEN RowFailed(log, r)
             ELSE /\ stats' = [stats EXCEPT
                                 !.locationAssignments = IF r.ret # Null THEN @ + 1 ELSE @,
                                 !.processed = @ + 1]
                  /\ NextRow(Logged(log, r, "DONE"))
  /\ UNCHANGED <<main, race, perm, rawRows, sheetData, run, startStats, prev>>

RunEnded == pc \in {"returned", "thrown"}

Snapshot ==
  [stats |-> stats, startStats |-> startStats, store |-> store, outcome |-> pc,
   faultsLeft |-> faultsLeft,
   failed |-> { k \in 1..Len(rowLog) : rowLog[k].status = "FAILED" },
   reset |-> FALSE]

\* the same, the statistics being set to zero before the next run
SnapshotReset == [Snapshot EXCEPT !.reset = TRUE]

\* the program is started again: a new SyncService, statistics at zero
Restart ==
  /\ RunEnded
  /\ run < MaxRuns
  /\ run' = run + 1
  /\ prev' = SnapshotReset
  /\ stats' = ZeroStats
  /\ startStats' = ZeroStats
  /\ pc' = "ready"
  /\ sheetData' = <<>>
  /\ i' = 0
  /\ rowLog' = <<>>
  /\ main' = [main EXCEPT !.pc = "start"]
  /\ UNCHANGED <<race, perm, rawRows, store, company, pair, loc, faultsLeft>>

\* variant: executeSync begins by setting the statistics to zero
ExecuteSyncAgain_zeroed ==
  /\ RunEnded
  /\ run < MaxRuns
  /\ run' = run + 1
  /\ prev' = Snapshot
  /\ stats' = ZeroStats
  /\ startStats' = ZeroStats
  /\ pc' = "ready"
  /\ sheetData' = <<>>
  /\ i' = 0
  /\ rowLog' = <<>>
  /\ UNCHANGED <<main, race, perm, rawRows, store, company, pair, loc, faultsLeft>>

\* resetStats, then executeSync is called again on the same SyncService
ExecuteSyncAfterReset ==
  /\ RunEnded
  /\ run < MaxRuns
  /\ run' = run + 1
  /\ prev' = SnapshotReset
  /\ stats' = ZeroStats
  /\ startStats' = ZeroStats
  /\ pc' = "ready"
  /\ sheetData' = <<>>
  /\ i' = 0
  /\ rowLog' = <<>>
  /\ UNCHANGED <<main, race, perm, rawRows, store, company, pair, loc, faultsLeft>>

\* executeSync is called again on the same SyncService: stats is kept
ExecuteSyncAgain ==
  /\ RunEnded
  /\ run < MaxRuns
  /\ run' = run + 1
  /\ prev' = Snapshot
  /\ startStats' = stats
  /\ pc' = "ready"
  /\ sheetData' = <<>>
  /\ i' = 0
  /\ rowLog' = <<>>
  /\ UNCHANGED <<main, race, perm, rawRows, store, stats, company, pair, loc, faultsLeft>>

Next ==
  \/ MainStart
  \/ ExecuteSyncStart
  \/ ProcessRowCompany
  \/ ProcessRowCustomer
  \/ ProcessRowLocation
  \/ ProcessRowAssignment
  \/ Restart
  \/ ExecuteSyncAgain
  \/ ExecuteSyncAfterReset

Spec == Init /\ [][Next]_vars

\* executeSync stands in its loop, at a stage of a row
InLoop == pc \in {"company", "customer", "location", "assignment"}

\* executeSync is resumed: it leaves the stage of the row at which it stood
Resumed ==
  /\ InLoop
  /\ pc' \in {"company", "customer", "location", "assignment", "returned"}
  /\ i' \in 1..(MaxRows + 1)

\* every call that executeSync awaits is answered or fails, and the event
\* loop then resumes it: it does not stand at one stage of one row for ever
SpecFair == Init /\ [][Next]_vars /\ WF_<<pc, i>>(Resumed)

\* ------------------------------------------------------------------
\* A shop with more companies than one page of the companies query:
\* executeSync of a sheet of at most one row, against a shop whose
\* company A comes last, on the first page or just behind it
\* ------------------------------------------------------------------
FillerId(k) == [j \in 1..(k + 1) |-> "F"]

PagedStore(n) ==
  [EmptyStore(<<LocationAdmin, OrderingOnly>>) EXCEPT
     !.companies = [k \in 1..(n + 1) |->
                      [externalId |-> IF k <= n THEN FillerId(k) ELSE Cell_A,
                       roles |-> <<LocationAdmin, OrderingOnly>>, modified |-> FALSE]],
     !.locations = <<[company |-> n + 1, externalId |-> <<>>, modified |-> FALSE]>>]

PagedStores == { PagedStore(n) : n \in {CompaniesPageSize - 1, CompaniesPageSize} }

PageSheets == { s \in Sheets : Len(s) <= 1 }

InitPage ==
  /\ rawRows \in PageSheets
  /\ store \in PagedStores
  /\ pc = "ready"
  /\ sheetData = <<>>
  /\ i = 0
  /\ stats = ZeroStats
  /\ company = Null
  /\ pair = Null
  /\ loc = Null
  /\ faultsLeft = MaxFaults
  /\ run = 1
  /\ startStats = ZeroStats
  /\ rowLog = <<>>
  /\ prev = Null
  /\ perm = Null
  /\ race = Null
  /\ main \in MainStarts

SpecPage == InitPage /\ [][Next]_vars

\* ------------------------------------------------------------------
\* SIGINT and SIGTERM: the handlers of index.js call process.exit(0);
\* the process ends wherever executeSync stands, and "exited" is the
\* position of a process that is gone
\* ------------------------------------------------------------------
Signal ==
  /\ pc \in {"ready", "company", "customer", "location", "assignment"}
  /\ pc' = "exited"
  /\ UNCHANGED <<main, race, perm, rawRows, store, sheetData, i, stats, company, pair, loc,
                 faultsLeft, run, startStats, rowLog, prev>>

SignalSheets == UNION { [1..n -> GoodRows] : n \in 0..MaxRows }

InitSignal ==
  /\ rawRows \in SignalSheets
  /\ store = EmptyStore(<<>>)
  /\ pc = "ready"
  /\ sheetData = <<>>
  /\ i = 0
  /\ stats = ZeroStats
  /\ company = Null
  /\ pair = Null
  /\ loc = Null
  /\ faultsLeft = MaxFaults
  /\ run = 1
  /\ startStats = ZeroStats
  /\ rowLog = <<>>
  /\ prev = Null
  /\ perm = Null
  /\ race = Null
  /\ main \in MainStarts

NextSignal ==
  \/ Next
  \/ Signal

SpecSignal == InitSignal /\ [][NextSignal]_vars

\* ------------------------------------------------------------------
\* Two executions of assignCustomerToLocationIfNeeded against one store,
\* interleaved between their remote calls
\* ------------------------------------------------------------------
Procs == {1, 2}

\* a store with company A, its contact and its two locations
RaceStore(roles, assigned) ==
  [companies |-> <<[externalId |-> Cell_A, roles |-> roles, modified |-> FALSE]>>,
   customers |-> <<[email |-> toLowerCase(Cell_mail1), company |-> 1, modified |-> FALSE]>>,
   locations |-> <<[company |-> 1, externalId |-> FirstLocationKey, modified |-> TRUE],
                   [company |-> 1, externalId |-> Cell_2, modified |-> FALSE]>>,
   assignments |-> IF assigned
                   THEN <<[contact |-> 1, location |-> 1, role |-> LocationAdmin]>>
                   ELSE <<>>,
   defaultRoles |-> roles]

RaceProc(locationId) ==
  [pc |-> "check", contact |-> ContactId(1), location |-> locationId, companyId |-> 0,
   contactRole |-> Null, ret |-> Null, mutated |-> FALSE]

InitRace ==
  /\ rawRows = <<>>
  /\ store = EmptyStore(<<>>)
  /\ pc = "ready"
  /\ sheetData = <<>>
  /\ i = 0
  /\ stats = ZeroStats
  /\ company = Null
  /\ pair = Null
  /\ loc = Null
  /\ faultsLeft = 0
  /\ run = 1
  /\ startStats = ZeroStats
  /\ rowLog = <<>>
  /\ prev = Null
  /\ perm = Null
  /\ main = MainSync
  /\ \E roles \in {<<>>, <<LocationAdmin, OrderingOnly>>}, assigned \in BOOLEAN,
        other \in {1, 2} :
       race = [store |-> RaceStore(roles, assigned),
               proc |-> <<RaceProc(1), RaceProc(other)>>,
               faultsLeft |-> RaceMaxFaults]

RaceFaultSets == IF race.faultsLeft > 0 THEN {{}, {1}} ELSE {{}}

RaceCtx(F) == [store |-> race.store, calls |-> <<>>, faults |-> F]

\* the step of process p ends: the store it leaves, its new position
RaceStep(p, r, F, next) ==
  race' = [race EXCEPT !.store = r.ctx.store,
                       !.faultsLeft = @ - Cardinality(F),
                       !.proc[p] = IF r.threw THEN [@ EXCEPT !.pc = "threw"] ELSE next]

\* const isAssigned = await this.isCustomerAssignedToLocation(...)
RaceCheck(p) ==
  /\ race.proc[p].pc = "check"
  /\ \E F \in RaceFaultSets :
       LET me == race.proc[p]
           r == isCustomerAssignedToLocation(RaceCtx(F), me.contact, me.location)
       IN RaceStep(p, r, F, IF r.ret THEN [me EXCEPT !.pc = "done", !.ret = Null]
                                     ELSE [me EXCEPT !.pc = "company"])
  /\ UNCHANGED mainVars

\* assignCustomerToLocation: the query for the contact's company
RaceCompany(p) ==
  /\ race.proc[p].pc = "company"
  /\ \E F \in RaceFaultSets :
       LET me == race.proc[p]
           r == getCompanyOfContact(RaceCtx(F), me.contact)
       IN RaceStep(p, r, F, [me EXCEPT !.pc = "roles", !.companyId = r.ret])
  /\ UNCHANGED mainVars

\* getOrCreateCompanyContactRole: the query for the company's roles
RaceRoles(p) ==
  /\ race.proc[p].pc = "roles"
  /\ \E F \in RaceFaultSets :
       LET me == race.proc[p]
           r == findCompanyContactRoles(RaceCtx(F), me.companyId)
       IN RaceStep(p, r, F, IF r.ret = Null THEN [me EXCEPT !.pc = "createRole"]
                                     ELSE [me EXCEPT !.pc = "assign", !.contactRole = r.ret])
  /\ UNCHANGED mainVars

\* getOrCreateCompanyContactRole: no role found, one is created
RaceCreateRole(p) ==
  /\ race.proc[p].pc = "createRole"
  /\ \E F \in RaceFaultSets :
       LET me == race.proc[p]
           r == createCompanyContactRole(RaceCtx(F), me.companyId, LocationMember)
       IN RaceStep(p, r, F, [me EXCEPT !.pc = "assign", !.contactRole = r.ret])
  /\ UNCHANGED mainVars

\* assignCustomerToLocation: the mutation and what is returned
RaceAssign(p) ==
  /\ race.proc[p].pc = "assign"
  /\ \E F \in RaceFaultSets :
       LET me == race.proc[p]
           r == companyContactAssignRole(RaceCtx(F), me.contact, me.contactRole, me.location)
       IN RaceStep(p, r, F, [me EXCEPT !.pc = "done", !.ret = r.ret, !.mutated = TRUE])
  /\ UNCHANGED mainVars

NextRace ==
  \/ \E p \in Procs : RaceCheck(p)
  \/ \E p \in Procs : RaceCompany(p)
  \/ \E p \in Procs : RaceRoles(p)
  \/ \E p \in Procs : RaceCreateRole(p)
  \/ \E p \in Procs : RaceAssign(p)

SpecRace == InitRace /\ [][NextRace]_vars

\* ------------------------------------------------------------------
\* Two orders of one batch: the rows of the sheet as read (side a) and a
\* permutation of them (side b) are processed by executeSync's loop, each
\* on its own copy of the same shop, and no remote call fails
\* ------------------------------------------------------------------
\* a side: the rows its loop has finished, the step of processRow it stands
\* at with processRow's company, { customer, contact } and location, its
\* copy of the shop and the keys of its DONE rows
PermSide(rows, st) ==
  [rows |-> rows, k |-> 0, stage |-> 1, company |-> Null, pair |-> Null, loc |-> Null,
   store |-> st, done |-> {}]

InitPerm ==
  /\ rawRows \in Sheets
  /\ store \in InitialStores
  /\ pc = "ready"
  /\ sheetData = <<>>
  /\ i = 0
  /\ stats = ZeroStats
  /\ company = Null
  /\ pair = Null
  /\ loc = Null
  /\ faultsLeft = 0
  /\ run = 1
  /\ startStats = ZeroStats
  /\ rowLog = <<>>
  /\ prev = Null
  /\ race = Null
  /\ main = MainSync
  /\ \E order \in Permutations(1..Len(rawRows)) :
       perm = [a |-> PermSide(transformSheetData(rawRows), store),
               b |-> PermSide(transformSheetData([k \in 1..Len(rawRows) |-> rawRows[order[k]]]),
                              store)]

\* a side's executeSync has validated its batch; the next step of processRow
\* for the side's current row, no remote call failing; side b runs when
\* side a has ended
PermStep(side) ==
  /\ validateSheetData(perm[side].rows).isValid
  /\ perm[side].k < Len(perm[side].rows)
  /\ side = "b" => perm.a.k = Len(perm.a.rows)
  /\ LET s == perm[side]
         data == s.rows[s.k + 1]
         ctx == [store |-> s.store, calls |-> <<>>, faults |-> {}]
         r == CASE s.stage = 1 -> getOrCreateCompany(ctx, data)
                [] s.stage = 2 -> getOrCreateCustomerAndContact(ctx, s.company.id, data)
                [] s.stage = 3 -> getOrCreateLocation(ctx, s.company.id, data)
                [] s.stage = 4 ->
                     IF startsWith(s.pair.contact.id, ExistingPrefix) THEN Return(ctx, Null)
                     ELSE assignCustomerToLocationIfNeeded(ctx, s.pair.contact.id, s.loc.id,
                                                           data.customerRole)
     IN perm' = [perm EXCEPT ![side] =
                   IF r.threw \/ s.stage = 4
                   THEN [PermSide(s.rows, r.ctx.store) EXCEPT
                           !.k = s.k + 1,
                           !.done = IF r.threw THEN s.done
                                    ELSE s.done \cup {data._companyLocationKey}]
                   ELSE [s EXCEPT !.stage = s.stage + 1,
                                  !.store = r.ctx.store,
                                  !.company = IF s.stage = 1 THEN r.ret ELSE @,
                                  !.pair = IF s.stage = 2 THEN r.ret ELSE @,
                                  !.loc = IF s.stage = 3 THEN r.ret ELSE @]]
  /\ UNCHANGED <<main, race, rawRows, store, pc, sheetData, i, stats, company, pair, loc,
                 faultsLeft, run, startStats, rowLog, prev>>

NextPerm ==
  \/ PermStep("a")
  \/ PermStep("b")

SpecPerm == InitPerm /\ [][NextPerm]_vars

\* ------------------------------------------------------------------
\* One call of ShopifyService.getOrCreateCompany with a row whose companyId
\* is any value: missing, a number, empty, blank, or an id
\* ------------------------------------------------------------------
CallIds ==
  { <<"undefined">>, <<"number">>, <<>>, Cell_blank, <<" ", " ">>, Cell_A, Cell_B,
    <<" ", "B">> }

InitCall ==
  /\ rawRows = <<>>
  /\ store \in InitialStores
  /\ pc = "call"
  /\ \E id \in CallIds : \E row \in GoodRows :
       sheetData = <<[transformSheetData(<<row>>)[1] EXCEPT !.companyId = id]>>
  /\ i = 1
  /\ stats = ZeroStats
  /\ company = Null
  /\ pair = Null
  /\ loc = Null
  /\ faultsLeft \in 0..MaxFaults
  /\ run = 1
  /\ startStats = ZeroStats
  /\ rowLog = <<NewRowLog(1, ZeroStats)>>
  /\ prev = Null
  /\ perm = Null
  /\ race = Null
  /\ main = MainSync

\* const company = await shopifyService.getOrCreateCompany(data)
GetOrCreateCompanyCall ==
  /\ pc = "call"
  /\ \E F \in FaultSets :
       LET r == getOrCreateCompany(Ctx(F), sheetData[1])
       IN /\ StepEffects(r, F)
          /\ company' = r.ret
          /\ pc' = IF r.threw THEN "callThrew" ELSE "callReturned"
          /\ rowLog' = [rowLog EXCEPT ![1].calls = r.ctx.calls]
  /\ UNCHANGED <<main, race, perm, rawRows, sheetData, i, stats, pair, loc, run,
                 startStats, prev>>

SpecCall == InitCall /\ [][GetOrCreateCompanyCall]_vars

\* ------------------------------------------------------------------
\* Sheets whose cells carry surrounding white space, either letter case,
\* and a currency and a country or none, read into an empty shop
\* ------------------------------------------------------------------
PaddedRows ==
  { [RawRow(cid, Cell_name, Cell_2, mail, Cell_name, <<" ", "N", " ">>, role)
       EXCEPT !.currencyCode = rest[1], !.country = rest[2]] :
      cid \in {Cell_A, <<" ", "B">>},
      mail \in {Cell_mail1, <<" ", "j", "@", "X", ".", "c", " ">>},
      role \in {Cell_blank, <<"a", "d", "m", "i", "n", " ">>},
      rest \in {<<<<>>, <<>>>>, <<<<" ", "c", "a", "d">>, <<" ", "U", "K", " ">>>>,
                <<Cell_blank, Cell_blank>>} }

InitPadded ==
  /\ rawRows \in UNION { [1..n -> PaddedRows] : n \in 0..MaxRows }
  /\ store = EmptyStore(<<>>)
  /\ pc = "ready"
  /\ sheetData = <<>>
  /\ i = 0
  /\ stats = ZeroStats
  /\ company = Null
  /\ pair = Null
  /\ loc = Null
  /\ faultsLeft = 0
  /\ run = 1
  /\ startStats = ZeroStats
  /\ rowLog = <<>>
  /\ prev = Null
  /\ perm = Null
  /\ race = Null
  /\ main \in MainStarts

SpecPadded == InitPadded /\ [][Next]_vars

\* ------------------------------------------------------------------
\* Properties
\* ------------------------------------------------------------------
Rows == 1..Len(rowLog)

CallsOf(k) == rowLog[k].calls

\* a remote call of the sequence failed
FaultIn(calls) == \E n \in 1..Len(calls) : ~calls[n].ok

Issued(calls, ops) == \E n \in 1..Len(calls) : calls[n].op \in ops

\* the rows of the run for which a remote call was issued
RemoteCallsOfRun == { k \in Rows : CallsOf(k) # <<>> }

\* the compositeKey of a row of the sheet
compositeKey(row) == companyLocationKeyOf(trim(row.companyId), trim(row.locationId))

\* two rows of the batch carry the same compositeKey, both identifiers given
HasDuplicateKey ==
  \E j, k \in 1..Len(rawRows) :
    /\ j < k
    /\ trim(rawRows[j].companyId) # <<>>
    /\ trim(rawRows[j].locationId) # <<>>
    /\ compositeKey(rawRows[j]) = compositeKey(rawRows[k])

\* C1: a batch in which two rows have the same compositeKey makes executeSync
\* throw its validation error, and no remote call is issued in the run
C1_DuplicateKeyAborts ==
  (pc # "ready" /\ HasDuplicateKey) =>
    /\ pc = "thrown"
    /\ RemoteCallsOfRun = {}

\* what holds of the rows executeSync reads: two of them with the same
\* companyId and locationId make it throw before any remote call
RetainedDuplicateKeyAborts ==
  (pc # "ready" /\ \E j, k \in 1..Len(sheetData) :
                     /\ j < k
                     /\ sheetData[j].companyId = sheetData[k].companyId
                     /\ sheetData[j].locationId = sheetData[k].locationId) =>
    /\ pc = "thrown"
    /\ RemoteCallsOfRun = {}

\* a row of the sheet that lacks a required field or carries a malformed email
DefectiveRow(row) ==
  \/ trim(row.companyId) = <<>>
  \/ trim(row.companyName) = <<>>
  \/ trim(row.locationId) = <<>>
  \/ trim(row.customerEmail) = <<>>
  \/ trim(row.customerFirstName) = <<>>
  \/ trim(row.customerLastName) = <<>>
  \/ ~emailRegexTest(trim(row.customerEmail))

HasDefectiveRow == \E k \in 1..Len(rawRows) : DefectiveRow(rawRows[k])

\* C2: a batch with a row that lacks a required field or has an invalid
\* email is aborted before any remote call is made and no row is processed
C2_DefectiveRowAborts ==
  (pc # "ready" /\ HasDefectiveRow) =>
    /\ RemoteCallsOfRun = {}
    /\ stats.processed = startStats.processed

FailedRows == { k \in Rows : rowLog[k].status = "FAILED" }

DoneRows == { k \in Rows : rowLog[k].status = "DONE" }

\* the rows for which a remote call failed
RowsWithFailure == { k \in Rows : FaultIn(CallsOf(k)) }

\* C3: in a validated batch executeSync throws nothing once the rows are
\* being processed and attempts every row; when exactly one row meets a
\* remote failure, every other row reaches DONE and errors is 1
C3_RowIsolation ==
  /\ pc = "thrown" => rowLog = <<>>
  /\ (pc = "returned" /\ Len(sheetData) > 0) =>
       /\ Len(rowLog) = Len(sheetData)
       /\ Cardinality(RowsWithFailure) = 1 =>
            /\ \A k \in Rows \ RowsWithFailure : rowLog[k].status = "DONE"
            /\ stats.errors - startStats.errors = 1

\* what holds of the loop: a row fails only on a failed remote call, every
\* row is attempted, errors counts the failed rows, processed the others
FailedRowsCounted ==
  /\ pc = "thrown" => rowLog = <<>>
  /\ \A k \in Rows : rowLog[k].status = "FAILED" => FaultIn(CallsOf(k))
  /\ (pc = "returned" /\ Len(sheetData) > 0) =>
       /\ Len(rowLog) = Len(sheetData)
       /\ FailedRows \cup DoneRows = Rows
       /\ stats.errors - startStats.errors = Cardinality(FailedRows)
       /\ stats.processed - startStats.processed = Cardinality(DoneRows)

EntityCounts(st) ==
  [companies |-> Len(st.companies),
   customers |-> Len(st.customers),
   contacts |-> Cardinality({ k \in 1..Len(st.customers) : st.customers[k].company # 0 }),
   locations |-> Len(st.locations),
   assignments |-> Len(st.assignments)]

CreateOps ==
  {"companyCreate", "companyContactCreate", "companyLocationCreate", "companyContactAssignRole"}

\* the batch runs a second time, its first run returned, no remote call has failed
SecondRunNoFailure ==
  /\ run = 2
  /\ prev.outcome = "returned"
  /\ faultsLeft = MaxFaults

\* C4: the second of two runs of a batch without remote failures issues no
\* create call and leaves the counts of companies, customers, company
\* contacts, locations and role assignments as the first run left them
C4_SecondRunAddsNothing ==
  SecondRunNoFailure =>
    /\ EntityCounts(store) = EntityCounts(prev.store)
    /\ \A k \in Rows : ~Issued(CallsOf(k), CreateOps)

C4_Witness ==
  /\ SecondRunNoFailure
  /\ pc = "returned"
  /\ Len(rowLog) = 2
  /\ DoneRows = Rows
  /\ prev.stats.companiesCreated > 0
  /\ prev.stats.locationsCreated > 0
  /\ Len(store.assignments) > 0

\* C5: in the second of two runs without remote failures, each counting from
\* zero, nothing is counted as created and the found counters are the
\* first run's created counters
C5_SecondRunFindsAll ==
  (SecondRunNoFailure /\ pc = "returned" /\ startStats = ZeroStats
     /\ prev.startStats = ZeroStats) =>
    /\ stats.companiesCreated = 0
    /\ stats.customersCreated = 0
    /\ stats.locationsCreated = 0
    /\ stats.companiesFound = prev.stats.companiesCreated
    /\ stats.customersFound = prev.stats.customersCreated
    /\ stats.locationsFound = prev.stats.locationsCreated

AssignmentOps ==
  {"companyContactRoleAssignments", "companyContact", "companyContactRoles",
   "companyContactRoleCreate", "companyContactAssignRole"}

LocationOps ==
  {"companyLocations", "companyDefaultLocation", "companyLocationUpdate",
   "companyLocationCreate"}

\* C6: a row whose customer is a contact of another company does not fail
\* unless a remote call fails; its contact is the placeholder, its location
\* step runs, no assignment call is issued and locationAssignments stays
C6_ConflictRowSkipsAssignment ==
  \A k \in Rows :
    rowLog[k].conflict =>
      /\ ~FaultIn(CallsOf(k)) => rowLog[k].status # "FAILED"
      /\ rowLog[k].contactId # Null => startsWith(rowLog[k].contactId, ExistingPrefix)
      /\ ~Issued(CallsOf(k), AssignmentOps)
      /\ rowLog[k].statsAfter.locationAssignments = rowLog[k].statsBefore.locationAssignments
      /\ rowLog[k].status = "DONE" =>
           /\ rowLog[k].locationId # 0
           /\ Issued(CallsOf(k), LocationOps)
           /\ rowLog[k].statsAfter.processed = rowLog[k].statsBefore.processed + 1

C6_Witness ==
  \E k \in Rows :
    /\ rowLog[k].conflict
    /\ rowLog[k].status = "DONE"
    /\ startsWith(rowLog[k].contactId, ExistingPrefix)

\* the calls of the row's location step
LocationCalls(k) == SelectSeq(CallsOf(k), LAMBDA c : c.op \in LocationOps)

\* the default location of the row's company is the row's location, updated,
\* and the company has as many locations as before
DefaultLocationKept(k) ==
  /\ rowLog[k].locationId = rowLog[k].defaultLocation
  /\ \E n \in 1..Len(CallsOf(k)) :
       /\ CallsOf(k)[n].op = "companyLocationUpdate"
       /\ CallsOf(k)[n].args.location = rowLog[k].defaultLocation
  /\ rowLog[k].locationsAfter = rowLog[k].locationsBefore
  /\ Issued(CallsOf(k), {"companyCreate"}) => rowLog[k].locationsAfter = 1
  /\ store.locations[rowLog[k].locationId].externalId = FirstLocationKey

\* C7: for a row with locationKey "1" whose company has no location keyed
\* "1" and owns a default location, createCompanyLocation is not called, the
\* default location is updated in place and the company's number of
\* locations stays (1 for a company the row created)
C7_DefaultLocationReused ==
  \A k \in Rows :
    rowLog[k].reuse =>
      /\ ~Issued(CallsOf(k), {"companyLocationCreate"})
      /\ rowLog[k].locationId # 0 => DefaultLocationKept(k)

\* what holds when no remote call of the location step fails
DefaultLocationReusedWithoutFailure ==
  \A k \in Rows :
    (rowLog[k].reuse /\ ~FaultIn(LocationCalls(k))) =>
      /\ ~Issued(CallsOf(k), {"companyLocationCreate"})
      /\ rowLog[k].locationId # 0 => DefaultLocationKept(k)

\* the role name stands for the row's customerRole
RoleMatches(roleName, customerRole) ==
  includes(toLowerCase(roleName), toLowerCase(customerRole))

\* C8: every role assignment a row creates carries the row's customerRole
C8_AssignmentCarriesRowRole ==
  \A k \in Rows :
    \A n \in 1..Len(CallsOf(k)) :
      (CallsOf(k)[n].op = "companyContactAssignRole" /\ CallsOf(k)[n].ok) =>
        RoleMatches(CallsOf(k)[n].args.role, sheetData[k].customerRole)

\* the role assignments the store holds for a contact at a location
AssignmentsOf(st, contactId, locationId) ==
  { m \in 1..Len(st.assignments) :
      /\ st.assignments[m].contact = contactId.customer
      /\ st.assignments[m].location = locationId }

RaceSamePair ==
  /\ race.proc[1].contact = race.proc[2].contact
  /\ race.proc[1].location = race.proc[2].location

RaceEnded == \A p \in Procs : race.proc[p].pc \in {"done", "threw"}

\* C9: two concurrent assignCustomerToLocationIfNeeded for one (contact,
\* location) pair, no remote call failing, leave exactly one role assignment
\* for the pair under every interleaving; neither throws, and only the one
\* whose mutation created the assignment returns it, the other returns null
C9_RaceLeavesOneAssignment ==
  (race # Null /\ RaceSamePair /\ race.faultsLeft = RaceMaxFaults) =>
    LET pairAssignments == AssignmentsOf(race.store, race.proc[1].contact, race.proc[1].location)
        returned == { p \in Procs : race.proc[p].pc = "done" /\ race.proc[p].ret # Null }
    IN /\ Cardinality(pairAssignments) <= 1
       /\ \A p \in Procs : race.proc[p].pc # "threw"
       /\ Cardinality(returned) <= 1
       /\ RaceEnded => Cardinality(pairAssignments) = 1

C9_Witness ==
  /\ race # Null
  /\ RaceSamePair
  /\ race.faultsLeft = RaceMaxFaults
  /\ RaceEnded
  /\ \A p \in Procs : race.proc[p].mutated
  /\ race.proc[1].ret = Null
  /\ race.proc[2].ret # Null

StageOf(call) ==
  CASE call.op \in {"companies", "companyCreate", "companyUpdate"} -> 1
    [] call.op = "metafieldsSet" -> (IF "company" \in DOMAIN call.args THEN 1 ELSE 3)
    [] call.op \in {"customers", "companyContacts", "companyAssignCustomerAsContact",
                    "companyContactCreate"} -> 2
    [] call.op \in LocationOps -> 3
    [] OTHER -> 4

\* the company a remote call of the customer, location or assignment step acts in
CompanyOfCall(call) ==
  IF "company" \in DOMAIN call.args THEN call.args.company
  ELSE IF call.op \in {"metafieldsSet", "companyLocationUpdate"}
  THEN store.locations[call.args.location].company
  ELSE store.customers[call.args.contact.customer].company

\* C10: the steps of a row run in the order company, customer, location,
\* assignment; the later steps act in the company step 1 returned, which is
\* the company of the row's companyId; the assignment links the contact of
\* step 2 to the location of step 3
C10_StageOrderAndIds ==
  \A k \in Rows :
    LET e == rowLog[k]
        d == sheetData[k]
        calls == e.calls
    IN /\ \A a, b \in 1..Len(calls) : a < b => StageOf(calls[a]) <= StageOf(calls[b])
       /\ e.companyId # 0 => store.companies[e.companyId].externalId = d.companyId
       /\ \A n \in 1..Len(calls) :
            /\ StageOf(calls[n]) >= 2 => e.companyId # 0
            /\ StageOf(calls[n]) >= 3 => e.contactId # Null
            /\ StageOf(calls[n]) = 4 => e.locationId # 0
            /\ (StageOf(calls[n]) >= 2 /\ calls[n].op # "customers"
                  /\ ("contact" \in DOMAIN calls[n].args => calls[n].ok)) =>
                 CompanyOfCall(calls[n]) = e.companyId
            /\ "contact" \in DOMAIN calls[n].args => calls[n].args.contact = e.contactId
            /\ calls[n].op = "companyContactAssignRole" =>
                 calls[n].args.location = e.locationId
       /\ e.locationId # 0 =>
            /\ store.locations[e.locationId].company = e.companyId
            /\ store.locations[e.locationId].externalId = d.locationId
       /\ (e.status = "DONE" /\ ~startsWith(e.contactId, ExistingPrefix)) =>
            /\ toLowerCase(store.customers[e.contactId.customer].email) = d.customerEmail
            /\ store.customers[e.contactId.customer].company = e.companyId
            /\ \E m \in 1..Len(store.assignments) :
                 /\ store.assignments[m].contact = e.contactId.customer
                 /\ store.assignments[m].location = e.locationId

C10_Witness ==
  /\ pc = "returned"
  /\ Len(rowLog) = 2
  /\ DoneRows = Rows
  /\ rowLog[1].companyId # rowLog[2].companyId
  /\ \A k \in Rows : Issued(CallsOf(k), {"companyContactAssignRole"})

\* the failed remote call of the row is its last call
FailureEndsRow(k) ==
  \A n \in 1..Len(CallsOf(k)) : ~CallsOf(k)[n].ok => n = Len(CallsOf(k))

\* C11: a remote failure met while a row is resolved makes the row FAILED,
\* errors incremented and processed not; after the failed call the row
\* issues no further call and does not reach DONE
C11_RemoteFailureFailsRow ==
  \A k \in Rows :
    FaultIn(CallsOf(k)) =>
      /\ FailureEndsRow(k)
      /\ rowLog[k].status # "DONE"
      /\ rowLog[k].status = "FAILED" =>
           /\ rowLog[k].statsAfter.errors = rowLog[k].statsBefore.errors + 1
           /\ rowLog[k].statsAfter.processed = rowLog[k].statsBefore.processed

\* no two companies of the store share an externalId
CompanyExternalIdsUnique ==
  \A a, b \in 1..Len(store.companies) :
    store.companies[a].externalId = store.companies[b].externalId => a = b

\* C12: companyCreate is issued for a row only when the store holds no
\* company whose externalId is the row's companyId, also in a shop with more
\* companies than one page of the lookup, and no two companies of the
\* store share an externalId
C12_CreateOnlyWhenAbsent ==
  /\ \A k \in Rows :
       Issued(CallsOf(k), {"companyCreate"}) => rowLog[k].companiesBefore = {}
  /\ CompanyExternalIdsUnique

\* the contact of the row's customer step is the placeholder
SentinelContact(k) ==
  rowLog[k].contactId # Null /\ rowLog[k].contactId.prefix = ExistingPrefix

\* C13: the customer step returns the placeholder contact only for a
\* customer that the store holds as a contact of another company; for a
\* customer that is a contact of the row's own company it returns the real
\* contact and the row, when DONE, has gone through the assignment step
C13_SentinelOnlyForOtherCompany ==
  \A k \in Rows :
    /\ SentinelContact(k) => rowLog[k].conflict
    /\ rowLog[k].linked =>
         /\ ~SentinelContact(k)
         /\ rowLog[k].status = "DONE" => Issued(CallsOf(k), AssignmentOps)

\* without a failed remote call the placeholder is returned for contacts of
\* other companies only
SentinelOnlyForOtherCompanyWithoutFailure ==
  \A k \in Rows :
    ~FaultIn(CallsOf(k)) =>
      /\ SentinelContact(k) => rowLog[k].conflict
      /\ rowLog[k].linked =>
           /\ ~SentinelContact(k)
           /\ rowLog[k].status = "DONE" => Issued(CallsOf(k), AssignmentOps)

\* ------------------------------------------------------------------
\* main: the summary printed after executeSync and the exit code
\* ------------------------------------------------------------------
\* if (results.errors === 0) ... else if (results.processed > 0) ... else ...
mainSummary(results) ==
  IF results.errors = 0 THEN [summary |-> "Perfect sync", exitCode |-> 0]
  ELSE IF results.processed > 0 THEN [summary |-> "Partial sync", exitCode |-> 1]
  ELSE [summary |-> "Sync failed completely", exitCode |-> 1]

\* main's end for the executeSync of a new SyncService: the summary of the
\* returned stats, or the catch of what executeSync threw
mainOutcome ==
  IF pc = "thrown" THEN [summary |-> "Fatal error", exitCode |-> 1]
  ELSE mainSummary(stats)

\* main has called executeSync on a new SyncService and executeSync has ended
MainEnded == RunEnded /\ startStats = ZeroStats

\* C14: main ends with full success exactly when at least one row was
\* processed and no row failed, with partial success when some rows failed
\* and some were processed, and with a failure when validation failed or no
\* row was processed (an empty sheet and a sheet whose rows were all
\* rejected included)
C14_TerminalOutcome ==
  MainEnded =>
    LET processed == Cardinality(DoneRows)
        failed == Cardinality(FailedRows)
    IN /\ mainOutcome.summary = "Perfect sync" <=>
            (pc = "returned" /\ processed >= 1 /\ failed = 0)
       /\ (pc = "returned" /\ processed >= 1 /\ failed >= 1) =>
            mainOutcome.summary = "Partial sync"
       /\ (pc = "thrown" \/ processed = 0) =>
            /\ mainOutcome.summary \in {"Sync failed completely", "Fatal error"}
            /\ mainOutcome.exitCode = 1

\* when at least one row went into the loop, main's summary is as C14 states
TerminalOutcomeOfNonEmptyBatch ==
  (MainEnded /\ (pc = "thrown" \/ Len(sheetData) > 0)) =>
    LET processed == Cardinality(DoneRows)
        failed == Cardinality(FailedRows)
    IN /\ mainOutcome.summary = "Perfect sync" <=>
            (pc = "returned" /\ processed >= 1 /\ failed = 0)
       /\ (pc = "returned" /\ processed >= 1 /\ failed >= 1) =>
            mainOutcome.summary = "Partial sync"
       /\ (pc = "thrown" \/ processed = 0) =>
            /\ mainOutcome.summary \in {"Sync failed completely", "Fatal error"}
            /\ mainOutcome.exitCode = 1

\* the rows left between two of their steps: some remote call was issued
\* for the row and the row is neither DONE nor FAILED
InterruptedRows == { k \in Rows : rowLog[k].status = "RUNNING" /\ CallsOf(k) # <<>> }

\* C15: when SIGINT or SIGTERM arrives while a row is being processed, the
\* process ends only after that row has finished its remaining steps: no
\* row is left between two of its steps
C15_CancellationBetweenRows ==
  pc = "exited" => InterruptedRows = {}

\* the n-th call of the row is issued again later in the row
Retried(k, n) ==
  \E m \in (n + 1)..Len(CallsOf(k)) :
    /\ CallsOf(k)[m].op = CallsOf(k)[n].op
    /\ CallsOf(k)[m].args = CallsOf(k)[n].args

\* C16: a remote call that fails is issued again before its row is declared
\* FAILED: a FAILED row's log holds a retry of each of its failed calls
C16_FailedCallRetried ==
  \A k \in Rows :
    rowLog[k].status = "FAILED" =>
      \A n \in 1..Len(CallsOf(k)) : ~CallsOf(k)[n].ok => Retried(k, n)

\* what the store holds for the keys of a row: its companies, its customers,
\* the contacts of those customers in those companies, the locations of those
\* companies with the row's locationId, and the assignments of those
\* contacts to those locations
HeldFor(st, data) ==
  LET cs == { c \in 1..Len(st.companies) : st.companies[c].externalId = data.companyId }
      us == { u \in 1..Len(st.customers) :
                toLowerCase(st.customers[u].email) = toLowerCase(data.customerEmail) }
      ts == { u \in us : st.customers[u].company \in cs }
      ls == { l \in 1..Len(st.locations) :
                st.locations[l].company \in cs /\ st.locations[l].externalId = data.locationId }
      as == { a \in 1..Len(st.assignments) :
                st.assignments[a].contact \in ts /\ st.assignments[a].location \in ls }
  IN [companies |-> Cardinality(cs), customers |-> Cardinality(us),
      contacts |-> Cardinality(ts), locations |-> Cardinality(ls),
      assignments |-> Cardinality(as)]

OneOfEach ==
  [companies |-> 1, customers |-> 1, contacts |-> 1, locations |-> 1, assignments |-> 1]

\* row k failed in the previous run and has been processed again, with no
\* failed remote call this time
ReprocessedAfterFailure(k) ==
  /\ run = 2
  /\ prev.outcome = "returned"
  /\ k \in prev.failed
  /\ k \in Rows
  /\ rowLog[k].status \in {"DONE", "FAILED"}
  /\ ~FaultIn(CallsOf(k))

\* C17: a row that failed in one run, whatever its remote calls had already
\* changed, reaches DONE when it is processed again without a remote
\* failure, and the store then holds exactly one company, customer, company
\* contact, location and role assignment for the row's keys
C17_FailedRowRecovers ==
  \A k \in 1..Len(sheetData) :
    ReprocessedAfterFailure(k) =>
      /\ rowLog[k].status = "DONE"
      /\ HeldFor(store, sheetData[k]) = OneOfEach

\* the same for the rows whose customer the store does not hold as a contact
\* of another company
FailedRowRecoversWithoutConflict ==
  \A k \in 1..Len(sheetData) :
    (ReprocessedAfterFailure(k) /\ ~rowLog[k].conflict) =>
      /\ rowLog[k].status = "DONE"
      /\ HeldFor(store, sheetData[k]) = OneOfEach

\* the contents of a store without its ids: the companies, the customers,
\* the company contacts, the locations and the role assignments by their keys
StoreContents(st) ==
  LET companyKey(c) == st.companies[c].externalId
      customerKey(u) == toLowerCase(st.customers[u].email)
      locationKey(l) == <<companyKey(st.locations[l].company), st.locations[l].externalId>>
  IN [companies |-> { companyKey(c) : c \in 1..Len(st.companies) },
      customers |-> { customerKey(u) : u \in 1..Len(st.customers) },
      contacts |-> { <<customerKey(u), companyKey(st.customers[u].company)>> :
                       u \in { v \in 1..Len(st.customers) : st.customers[v].company # 0 } },
      locations |-> { locationKey(l) : l \in 1..Len(st.locations) },
      assignments |-> { <<customerKey(st.assignments[n].contact),
                          locationKey(st.assignments[n].location),
                          st.assignments[n].role>> : n \in 1..Len(st.assignments) },
      counts |-> EntityCounts(st)]

BothOrdersEnded ==
  /\ validateSheetData(perm.a.rows).isValid
  /\ validateSheetData(perm.b.rows).isValid
  /\ perm.a.k = Len(perm.a.rows)
  /\ perm.b.k = Len(perm.b.rows)

\* C18: a valid batch processed without a remote failure leaves the same
\* store contents and the same set of DONE rows whatever the order of its rows
C18_OrderIndependent ==
  BothOrdersEnded =>
    /\ StoreContents(perm.a.store) = StoreContents(perm.b.store)
    /\ perm.a.done = perm.b.done

\* the e-mails of the rows of the batch are pairwise different
DistinctEmails ==
  \A x, y \in 1..Len(perm.a.rows) :
    perm.a.rows[x].customerEmail = perm.a.rows[y].customerEmail => x = y

\* the order does not matter for a batch in which no two rows name the same customer
OrderIndependentForDistinctEmails ==
  (BothOrdersEnded /\ DistinctEmails) =>
    /\ StoreContents(perm.a.store) = StoreContents(perm.b.store)
    /\ perm.a.done = perm.b.done

\* the row's location step has returned and the row has ended
PastLocationStep(k) ==
  rowLog[k].locationId # 0 /\ rowLog[k].status \in {"DONE", "FAILED"}

\* the step of the last remote call of the row
LastStage(k) == StageOf(CallsOf(k)[Len(CallsOf(k))])

\* C19: the assignment step calls assignCustomerToLocationIfNeeded if and
\* only if the contact of the customer step is not the placeholder; with the
\* placeholder the row is DONE after its location step and issues no
\* further remote call
C19_AssignmentIffNotSentinel ==
  \A k \in Rows :
    /\ Issued(CallsOf(k), AssignmentOps) => rowLog[k].locationId # 0
    /\ PastLocationStep(k) =>
         /\ Issued(CallsOf(k), {"companyContactRoleAssignments"}) <=> ~SentinelContact(k)
         /\ SentinelContact(k) =>
              /\ rowLog[k].status = "DONE"
              /\ LastStage(k) = 3
              /\ ~Issued(CallsOf(k), AssignmentOps)

C19_Witness ==
  \E k, j \in Rows :
    /\ PastLocationStep(k)
    /\ SentinelContact(k)
    /\ rowLog[k].status = "DONE"
    /\ LastStage(k) = 3
    /\ PastLocationStep(j)
    /\ ~SentinelContact(j)
    /\ Issued(CallsOf(j), {"companyContactRoleAssignments"})

\* no two assignments of the store link the same contact to the same location
AssignmentsUnique ==
  \A a, b \in 1..Len(store.assignments) :
    (/\ store.assignments[a].contact = store.assignments[b].contact
     /\ store.assignments[a].location = store.assignments[b].location) => a = b

\* the row counted a location assignment
AssignmentCounted(k) ==
  rowLog[k].statsAfter.locationAssignments = rowLog[k].statsBefore.locationAssignments + 1

\* C20: for a row whose contact is already assigned to its location the
\* assign mutation is not issued and the row is DONE; locationAssignments
\* is incremented only by rows that created an assignment; the store holds
\* no two assignments of one contact to one location
C20_ExistingAssignmentIsNoOp ==
  /\ \A k \in Rows :
       /\ rowLog[k].assigned =>
            /\ ~Issued(CallsOf(k), {"companyContactAssignRole"})
            /\ rowLog[k].status = "DONE"
            /\ ~AssignmentCounted(k)
       /\ AssignmentCounted(k) =>
            /\ ~rowLog[k].assigned
            /\ Issued(CallsOf(k), {"companyContactAssignRole"})
            /\ AssignmentHeld(store, rowLog[k].contactId, rowLog[k].locationId)
       /\ rowLog[k].statsAfter.locationAssignments
            \in {rowLog[k].statsBefore.locationAssignments,
                 rowLog[k].statsBefore.locationAssignments + 1}
  /\ AssignmentsUnique

\* the same, for the rows whose remote calls all succeeded
ExistingAssignmentIsNoOpWithoutFailure ==
  /\ \A k \in Rows :
       ~FaultIn(CallsOf(k)) =>
         /\ rowLog[k].assigned =>
              /\ ~Issued(CallsOf(k), {"companyContactAssignRole"})
              /\ rowLog[k].status = "DONE"
              /\ ~AssignmentCounted(k)
         /\ AssignmentCounted(k) =>
              /\ ~rowLog[k].assigned
              /\ Issued(CallsOf(k), {"companyContactAssignRole"})
              /\ AssignmentHeld(store, rowLog[k].contactId, rowLog[k].locationId)
  /\ AssignmentsUnique

\* the queries whose failure findExistingCompanyContact,
\* findDefaultCompanyLocation and isCustomerAssignedToLocation catch
SwallowedOps == {"companyContacts", "companyDefaultLocation", "companyContactRoleAssignments"}

\* a failed remote call other than those three queries ends its row as FAILED
PropagatedFailureFailsRow ==
  \A k \in Rows :
    \A n \in 1..Len(CallsOf(k)) :
      (~CallsOf(k)[n].ok /\ CallsOf(k)[n].op \notin SwallowedOps) =>
        /\ n = Len(CallsOf(k))
        /\ rowLog[k].status = "FAILED"
        /\ rowLog[k].statsAfter.errors = rowLog[k].statsBefore.errors + 1
        /\ rowLog[k].statsAfter.processed = rowLog[k].statsBefore.processed

\* the customers query of the row's customer step was answered
CustomerLookedUp(k) ==
  \E n \in 1..Len(CallsOf(k)) : CallsOf(k)[n].op = "customers" /\ CallsOf(k)[n].ok

\* no two customers of the store have the same e-mail
CustomerEmailsUnique ==
  \A a, b \in 1..Len(store.customers) :
    toLowerCase(store.customers[a].email) = toLowerCase(store.customers[b].email) => a = b

\* C21: in the customer step companyContactCreate is issued iff the store
\* holds no customer of the row's e-mail; for a customer that is already a
\* contact of the row's company neither companyContactCreate nor
\* companyAssignCustomerAsContact is issued; companyAssignCustomerAsContact is
\* issued iff the customer exists and is not a contact of the row's company;
\* no second customer is created for an e-mail the store holds
C21_PathFromLookups ==
  /\ \A k \in Rows :
       CustomerLookedUp(k) =>
         /\ Issued(CallsOf(k), {"companyContactCreate"}) <=> ~rowLog[k].known
         /\ rowLog[k].linked =>
              ~Issued(CallsOf(k), {"companyContactCreate", "companyAssignCustomerAsContact"})
         /\ Issued(CallsOf(k), {"companyAssignCustomerAsContact"}) <=>
              (rowLog[k].known /\ ~rowLog[k].linked)
  /\ CustomerEmailsUnique

\* the same for the rows whose remote calls all succeeded
PathFromLookupsWithoutFailure ==
  /\ \A k \in Rows :
       (CustomerLookedUp(k) /\ ~FaultIn(CallsOf(k))) =>
         /\ Issued(CallsOf(k), {"companyContactCreate"}) <=> ~rowLog[k].known
         /\ rowLog[k].linked =>
              ~Issued(CallsOf(k), {"companyContactCreate", "companyAssignCustomerAsContact"})
         /\ Issued(CallsOf(k), {"companyAssignCustomerAsContact"}) <=>
              (rowLog[k].known /\ ~rowLog[k].linked)
  /\ CustomerEmailsUnique

\* an earlier row of the transformed output has the key of row k
EarlierRetainedKey(k) ==
  \E j \in 1..(k - 1) : sheetData[j]._companyLocationKey = sheetData[k]._companyLocationKey

\* C22: a row of the transformed output is marked _isDuplicate exactly when
\* an earlier row of the output has its key, and every row of the sheet
\* without a missing field and with a well-formed e-mail is in the output,
\* repeated key or not
C22_DuplicatesFlaggedNotDropped ==
  pc # "ready" =>
    /\ \A k \in 1..Len(sheetData) : sheetData[k]._isDuplicate <=> EarlierRetainedKey(k)
    /\ \A n \in 1..Len(rawRows) :
         ~DefectiveRow(rawRows[n]) =>
           \E k \in 1..Len(sheetData) : sheetData[k]._sourceRow = n + 1

\* every well-formed row of the sheet is in the output, and a row of the
\* output with an earlier row of its key is marked
RetainedAndMarked ==
  pc # "ready" =>
    /\ \A k \in 1..Len(sheetData) : EarlierRetainedKey(k) => sheetData[k]._isDuplicate
    /\ \A n \in 1..Len(rawRows) :
         ~DefectiveRow(rawRows[n]) =>
           \E k \in 1..Len(sheetData) : sheetData[k]._sourceRow = n + 1

\* the customer step of row k returned its customer and contact
CustomerStepDone(k) == rowLog[k].contactId # Null

\* what row k added to a counter of the statistics
Counted(k, counter) == rowLog[k].statsAfter[counter] - rowLog[k].statsBefore[counter]

\* C23: a row whose customer step returned adds one to customersCreated
\* exactly when the store held no customer of its e-mail, and one to
\* customersFound exactly when the store held one, modified since its
\* creation or not; no other row changes these counters
C23_CustomerCounters ==
  \A k \in Rows :
    /\ Counted(k, "customersCreated") = (IF CustomerStepDone(k) /\ ~rowLog[k].known THEN 1 ELSE 0)
    /\ Counted(k, "customersFound") = (IF CustomerStepDone(k) /\ rowLog[k].known THEN 1 ELSE 0)

\* a row whose customer step returned adds one to exactly one of the two
\* counters, and a customer the row created is counted as created
CustomerCountedOnce ==
  \A k \in Rows :
    /\ Counted(k, "customersCreated") + Counted(k, "customersFound")
         = (IF CustomerStepDone(k) THEN 1 ELSE 0)
    /\ (CustomerStepDone(k) /\ ~rowLog[k].known) => Counted(k, "customersCreated") = 1

\* the company step and the location step of row k returned
CompanyStepDone(k) == rowLog[k].companyId # 0

LocationStepDone(k) == rowLog[k].locationId # 0

One(b) == IF b THEN 1 ELSE 0

\* C24: a row adds one to companiesCreated exactly when its company step
\* returned after companyCreate, and one to companiesFound exactly when it
\* returned after companyUpdate of the company found by externalId; it adds
\* one to locationsCreated exactly when its location step returned after
\* companyLocationCreate, and one to locationsFound exactly when it returned
\* after companyLocationUpdate of a location found by externalId or of the
\* reused default location
C24_CompanyAndLocationCounters ==
  \A k \in Rows :
    /\ Counted(k, "companiesCreated")
         = One(CompanyStepDone(k) /\ Issued(CallsOf(k), {"companyCreate"}))
    /\ Counted(k, "companiesFound")
         = One(CompanyStepDone(k) /\ Issued(CallsOf(k), {"companyUpdate"}))
    /\ Counted(k, "locationsCreated")
         = One(LocationStepDone(k) /\ Issued(CallsOf(k), {"companyLocationCreate"}))
    /\ Counted(k, "locationsFound")
         = One(LocationStepDone(k) /\ Issued(CallsOf(k), {"companyLocationUpdate"}))

\* a row adds one to exactly one counter of each pair when the step returned
CompanyAndLocationCountedOnce ==
  \A k \in Rows :
    /\ Counted(k, "companiesCreated") + Counted(k, "companiesFound") = One(CompanyStepDone(k))
    /\ Counted(k, "locationsCreated") + Counted(k, "locationsFound") = One(LocationStepDone(k))

C24_Witness ==
  /\ pc = "returned"
  /\ Len(rowLog) = 2
  /\ DoneRows = Rows
  /\ Issued(CallsOf(1), {"companyCreate"}) /\ Counted(1, "companiesCreated") = 1
  /\ Issued(CallsOf(1), {"companyLocationCreate"}) /\ Counted(1, "locationsCreated") = 1
  /\ Issued(CallsOf(2), {"companyUpdate"}) /\ Counted(2, "companiesFound") = 1
  /\ Issued(CallsOf(2), {"companyLocationUpdate"}) /\ Counted(2, "locationsFound") = 1

\* the customer step of row k returned a contact that companyContactCreate or
\* companyAssignCustomerAsContact made in that step
ContactCreated(k) ==
  /\ CustomerStepDone(k)
  /\ rowLog[k].contactId.prefix = <<>>
  /\ Issued(CallsOf(k), {"companyContactCreate", "companyAssignCustomerAsContact"})

\* C25: a row adds one to contactsCreated exactly when its customer step made
\* a company contact; a row whose contact existed, or whose contact is the
\* placeholder, adds nothing
C25_ContactsCreatedCounted ==
  \A k \in Rows : Counted(k, "contactsCreated") = One(ContactCreated(k))

\* a row adds one to contactsCreated exactly when its customer step returned
ContactCountedPerCustomerStep ==
  \A k \in Rows : Counted(k, "contactsCreated") = One(CustomerStepDone(k))

\* C26: with DRY_RUN = "true" no step of the program reads the sheet, issues
\* a remote call or changes the store: executeSync is never entered
C26_DryRunChangesNothing ==
  [][main.DRY_RUN = "true" => UNCHANGED <<store, pc, sheetData, rowLog, stats, run>>]_vars

C26_Witness ==
  /\ main.DRY_RUN = "true"
  /\ main.pc = "returned"
  /\ pc = "ready"
  /\ Len(rawRows) > 0

\* the rows of the run that have begun and reached neither DONE nor FAILED
RunningRows == { k \in Rows : rowLog[k].status = "RUNNING" }

\* C27: the rows are processed one at a time in the order of the sheet: the
\* k-th row processed is the k-th retained row of the sheet and its calls
\* begin with the lookup of that row's company; when a call has been issued
\* for a row every row before it is DONE or FAILED, so at most one row is
\* being processed
C27_RowsOneAtATime ==
  /\ \A k \in Rows :
       /\ rowLog[k].row = k
       /\ k <= Len(sheetData)
       /\ \A j \in 1..(k - 1) :
            /\ rowLog[j].status \in {"DONE", "FAILED"}
            /\ sheetData[j]._sourceRow < sheetData[k]._sourceRow
       /\ CallsOf(k) # <<>> =>
            /\ CallsOf(k)[1].op = "companies"
            /\ CallsOf(k)[1].args.externalId = sheetData[k].companyId
       /\ rowLog[k].status = "RUNNING" => (k = i /\ pc \notin {"ready", "returned", "thrown"})
  /\ Cardinality(RunningRows) <= 1

C27_Witness ==
  /\ Len(rowLog) = 2
  /\ rowLog[1].status = "FAILED"
  /\ rowLog[2].status = "RUNNING"
  /\ pc = "assignment"
  /\ sheetData[1].companyId # sheetData[2].companyId

\* how many calls of an operation a row issued, and whether a query of the
\* row was answered
CountOps(k, op) == Cardinality({ n \in 1..Len(CallsOf(k)) : CallsOf(k)[n].op = op })

Answered(k, op) == \E n \in 1..Len(CallsOf(k)) : CallsOf(k)[n].op = op /\ CallsOf(k)[n].ok

\* C28: a row whose lookup found the company of its externalId (the query was
\* answered and its page holds the company) issues exactly one companyUpdate
\* and no companyCreate; a row whose lookup found the
\* location of its externalId issues exactly one companyLocationUpdate and no
\* companyLocationCreate; a row that issues the create of an entity issues no
\* update of it
C28_FoundIsUpdatedOnce ==
  \A k \in Rows :
    /\ (Answered(k, "companies")
          /\ \E c \in rowLog[k].companiesBefore : c <= CompaniesPageSize) =>
         (CountOps(k, "companyUpdate") = 1 /\ CountOps(k, "companyCreate") = 0)
    /\ (Answered(k, "companyLocations") /\ rowLog[k].located) =>
         (CountOps(k, "companyLocationUpdate") = 1 /\ CountOps(k, "companyLocationCreate") = 0)
    /\ CountOps(k, "companyCreate") > 0 => CountOps(k, "companyUpdate") = 0
    /\ CountOps(k, "companyLocationCreate") > 0 => CountOps(k, "companyLocationUpdate") = 0

C28_Witness ==
  /\ Len(rowLog) = 2
  /\ DoneRows = Rows
  /\ rowLog[1].located /\ CountOps(1, "companyLocationUpdate") = 1
  /\ CountOps(1, "companyUpdate") = 1
  /\ CountOps(2, "companyUpdate") = 1
  /\ ~rowLog[2].located /\ CountOps(2, "companyLocationCreate") = 1

\* the characters of a sequence
CharsOf(s) == { s[k] : k \in 1..Len(s) }

\* no white space at either end
Trimmed(s) == s = <<>> \/ (s[1] # " " /\ s[Len(s)] # " ")

\* s without its leading and trailing blanks
Core(s) ==
  LET inked == { k \in 1..Len(s) : s[k] # " " }
  IN IF inked = {} THEN <<>>
     ELSE SubSeq(s, Min(inked), CHOOSE k \in inked : \A j \in inked : j <= k)

\* the same character, or the two cases of one letter
SameLetter(c, d) ==
  c = d \/ \E k \in 1..Len(UpperLetters) : {c, d} = {UpperLetters[k], LowerLetters[k]}

\* two cells that differ at most in letter case and surrounding white space
SameUpToCaseAndSpace(a, b) ==
  /\ Len(Core(a)) = Len(Core(b))
  /\ \A k \in 1..Len(Core(a)) : SameLetter(Core(a)[k], Core(b)[k])

\* the row of the sheet from which row k of the output was made
RawOf(k) == rawRows[sheetData[k]._sourceRow - 1]

\* C29: in every row of the output the string fields carry no surrounding
\* white space and are the cells' contents between their blanks, the e-mail
\* has no upper-case letter, role and currency have no lower-case letter and
\* are "MEMBER" and "USD" for an empty or blank cell, the country is the
\* default for an empty or blank cell; two rows whose e-mail cells differ only
\* in letter case or surrounding white space have the same customerEmail
C29_RowsNormalised ==
  pc # "ready" =>
    /\ \A k \in 1..Len(sheetData) :
         LET out == sheetData[k]
             raw == RawOf(k)
         IN /\ \A f \in {"companyId", "companyName", "locationId", "customerEmail",
                         "customerFirstName", "customerLastName", "customerRole",
                         "currencyCode", "country"} : Trimmed(out[f])
            /\ \A f \in {"companyId", "companyName", "locationId",
                         "customerFirstName", "customerLastName"} : out[f] = Core(raw[f])
            /\ SameUpToCaseAndSpace(out.customerEmail, raw.customerEmail)
            /\ CharsOf(out.customerEmail) \cap CharsOf(UpperLetters) = {}
            /\ CharsOf(out.customerRole) \cap CharsOf(LowerLetters) = {}
            /\ CharsOf(out.currencyCode) \cap CharsOf(LowerLetters) = {}
            /\ IF Core(raw.customerRole) = <<>> THEN out.customerRole = MEMBER
               ELSE SameUpToCaseAndSpace(out.customerRole, raw.customerRole)
            /\ IF Core(raw.currencyCode) = <<>> THEN out.currencyCode = USD
               ELSE SameUpToCaseAndSpace(out.currencyCode, raw.currencyCode)
            /\ out.country = (IF Core(raw.country) = <<>> THEN UnitedStates
                              ELSE Core(raw.country))
    /\ \A j, k \in 1..Len(sheetData) :
         SameUpToCaseAndSpace(RawOf(j).customerEmail, RawOf(k).customerEmail) =>
           sheetData[j].customerEmail = sheetData[k].customerEmail

C29_Witness ==
  /\ pc = "returned"
  /\ Len(sheetData) = 2
  /\ RawOf(1).customerEmail # RawOf(2).customerEmail
  /\ sheetData[1].customerEmail = sheetData[2].customerEmail
  /\ sheetData[1].customerRole = MEMBER /\ sheetData[2].customerRole = ADMIN
  /\ sheetData[1].currencyCode = USD /\ sheetData[2].currencyCode # USD
  /\ sheetData[1].country = UnitedStates /\ sheetData[2].country # UnitedStates
  /\ RawOf(2).companyId # sheetData[2].companyId

\* the loop of a run that returned left every row of the batch DONE or
\* FAILED, and processed + errors grew by the number of rows
EveryRowCounted ==
  pc = "returned" =>
    /\ Len(rowLog) = Len(sheetData)
    /\ \A k \in Rows : rowLog[k].status \in {"DONE", "FAILED"}
    /\ (stats.processed - startStats.processed) + (stats.errors - startStats.errors)
         = Len(sheetData)
    /\ stats.processed - startStats.processed = Cardinality(DoneRows)
    /\ stats.errors - startStats.errors = Cardinality(FailedRows)

\* processed is raised for a row only when its four stages have completed
ProcessedAfterAllStages ==
  \A k \in Rows :
    /\ Counted(k, "processed") = One(rowLog[k].status = "DONE")
    /\ Counted(k, "errors") = One(rowLog[k].status = "FAILED")
    /\ rowLog[k].status = "DONE" =>
         (CompanyStepDone(k) /\ CustomerStepDone(k) /\ LocationStepDone(k) /\ k < i)

\* every step taken in the loop leaves the stage of the row
LoopStepsAdvance == [][InLoop => <<pc, i>>' # <<pc, i>>]_vars

\* C30: executeSync, once in its loop over a validated batch, returns; when
\* it has returned every row is DONE or FAILED, processed + errors has grown
\* by the number of rows, and processed counts the rows whose stages all
\* completed
C30_TerminatesWithEveryRowCounted ==
  /\ InLoop ~> (pc = "returned")
  /\ []EveryRowCounted
  /\ []ProcessedAfterAllStages

C30_Witness ==
  /\ pc = "returned"
  /\ Len(sheetData) = 2
  /\ rowLog[1].status = "FAILED"
  /\ rowLog[2].status = "DONE"
  /\ stats.processed = 1 /\ stats.errors = 1

\* the calls of getOrCreateCustomerAndContact whose errors it hands on
CustomerStepOps == {"customers", "companyContactCreate", "companyAssignCustomerAsContact"}

\* a call of the row's customer step failed in transit
CustomerCallFailed(k) ==
  \E n \in 1..Len(CallsOf(k)) : CallsOf(k)[n].op \in CustomerStepOps /\ ~CallsOf(k)[n].ok

\* C31: the placeholder contact is returned only when the store answered
\* companyAssignCustomerAsContact with "Customer is already associated with a
\* company contact" (the customer was a contact of a company); a row whose
\* customers, companyContactCreate or companyAssignCustomerAsContact call
\* failed otherwise is FAILED at that call and has no contact
C31_OnlyConflictIsTolerated ==
  \A k \in Rows :
    /\ SentinelContact(k) =>
         /\ Answered(k, "companyAssignCustomerAsContact")
         /\ rowLog[k].linked \/ rowLog[k].conflict
    /\ CustomerCallFailed(k) =>
         /\ rowLog[k].status = "FAILED"
         /\ rowLog[k].contactId = Null
         /\ CallsOf(k)[Len(CallsOf(k))].op \in CustomerStepOps
         /\ ~CallsOf(k)[Len(CallsOf(k))].ok
         /\ Counted(k, "errors") = 1

C31_Witness ==
  /\ Len(rowLog) = 2
  /\ SentinelContact(1)
  /\ rowLog[1].conflict
  /\ CustomerCallFailed(2)
  /\ CallsOf(2)[Len(CallsOf(2))].op = "companyAssignCustomerAsContact"

\* the entities a record of statistics counts, created or found
CompaniesCounted(st) == st.companiesCreated + st.companiesFound

CustomersCounted(st) == st.customersCreated + st.customersFound

LocationsCounted(st) == st.locationsCreated + st.locationsFound

\* C32: between the stages of a run the statistics satisfy
\* companies >= customers = contactsCreated >= locations >= processed, each
\* entity counted as created or found; a FAILED row has raised the counters
\* of the stages it completed by one and has left processed as it was
C32_CounterChain ==
  /\ CompaniesCounted(stats) >= CustomersCounted(stats)
  /\ CustomersCounted(stats) = stats.contactsCreated
  /\ stats.contactsCreated >= LocationsCounted(stats)
  /\ LocationsCounted(stats) >= stats.processed
  /\ \A k \in FailedRows :
       /\ Counted(k, "processed") = 0
       /\ CompaniesCounted(rowLog[k].statsAfter) - CompaniesCounted(rowLog[k].statsBefore)
            = One(CompanyStepDone(k))
       /\ CustomersCounted(rowLog[k].statsAfter) - CustomersCounted(rowLog[k].statsBefore)
            = One(CustomerStepDone(k))
       /\ LocationsCounted(rowLog[k].statsAfter) - LocationsCounted(rowLog[k].statsBefore)
            = One(LocationStepDone(k))

C32_Witness ==
  /\ pc = "returned"
  /\ FailedRows = {1}
  /\ CompanyStepDone(1) /\ CustomerStepDone(1) /\ ~LocationStepDone(1)
  /\ DoneRows = {2}
  /\ CompaniesCounted(stats) = 2
  /\ LocationsCounted(stats) = 1
  /\ stats.processed = 1

Counters == DOMAIN ZeroStats

RECURSIVE CountedUpTo(_, _)
\* what the first n rows of the run added to a counter
CountedUpTo(n, counter) ==
  IF n = 0 THEN 0 ELSE CountedUpTo(n - 1, counter) + Counted(n, counter)

\* C33: an executeSync called again on the same SyncService without
\* resetStats starts from the statistics the first call returned and returns,
\* for every counter, the first call's value plus what its own rows added;
\* after resetStats (as for a new SyncService) the run starts with every
\* counter at 0 and returns what its own rows added
C33_StatisticsAccumulate ==
  (run > 1) =>
    /\ startStats = (IF prev.reset THEN ZeroStats ELSE prev.stats)
    /\ pc = "returned" =>
         \A c \in Counters :
           stats[c] = (IF prev.reset THEN 0 ELSE prev.stats[c]) + CountedUpTo(Len(rowLog), c)

C33_Witness ==
  /\ run = 2
  /\ pc = "returned"
  /\ ~prev.reset
  /\ prev.stats.processed = 1
  /\ prev.stats.errors = 1
  /\ DoneRows = Rows /\ Len(rowLog) = 2
  /\ stats.processed = 3
  /\ stats.errors = 1
  /\ stats.companiesCreated + stats.companiesFound = 4

\* C34: no step changes the externalId of a company the store holds, and no
\* company leaves the store: a company is found under its key for ever
C34_ExternalIdKept ==
  [][/\ Len(store'.companies) >= Len(store.companies)
     /\ \A k \in 1..Len(store.companies) :
          store'.companies[k].externalId = store.companies[k].externalId]_vars

\* a second run has updated a company that the first run created, and the
\* company has the externalId under which the first run left it
C34_Witness ==
  /\ run = 2
  /\ pc = "returned"
  /\ DoneRows = Rows /\ Rows # {}
  /\ \E k \in 1..Len(prev.store.companies) :
       /\ k > 1
       /\ ~prev.store.companies[k].modified
       /\ store.companies[k].modified
       /\ store.companies[k].externalId = prev.store.companies[k].externalId
       /\ \A r \in Rows : rowLog[r].companyId = k /\ CountOps(r, "companyUpdate") = 1

\* the locations of the store without externalId
DefaultLocations(st) == { l \in 1..Len(st.locations) : st.locations[l].externalId = <<>> }

\* the location step of a row whose locationId is not "1" leaves every
\* location without externalId as it is
OtherKeyKeepsDefault ==
  [][(pc = "location" /\ sheetData[i].locationId # FirstLocationKey) =>
       \A l \in DefaultLocations(store) : store'.locations[l] = store.locations[l]]_vars

\* a location keeps the externalId it has
LocationKeyKept ==
  [][\A l \in 1..Len(store.locations) :
       store.locations[l].externalId # <<>> =>
         store'.locations[l].externalId = store.locations[l].externalId]_vars

\* a row with a locationId other than "1" that the company does not hold
\* issues no companyLocationUpdate and, when its step returned, has created a
\* location: a company the row created then has two; a row that reused the
\* default location has given it the externalId "1" and has it as its location
OtherKeyCreates ==
  \A k \in Rows :
    /\ (Answered(k, "companyLocations") /\ ~rowLog[k].located
          /\ sheetData[k].locationId # FirstLocationKey) =>
         /\ CountOps(k, "companyLocationUpdate") = 0
         /\ LocationStepDone(k) =>
              /\ CountOps(k, "companyLocationCreate") = 1
              /\ rowLog[k].locationsAfter = rowLog[k].locationsBefore + 1
              /\ CountOps(k, "companyCreate") = 1 => rowLog[k].locationsAfter = 2
    /\ (rowLog[k].reuse /\ CountOps(k, "companyLocationUpdate") = 1 /\ LocationStepDone(k)) =>
         /\ rowLog[k].locationId = rowLog[k].defaultLocation
         /\ store.locations[rowLog[k].defaultLocation].externalId = FirstLocationKey
         /\ store.locations[rowLog[k].defaultLocation].company = rowLog[k].companyId

\* C35: the location step changes a location without externalId only for a
\* row whose locationId is "1"; for another locationId that the company does
\* not hold it creates a location, so that a new company has two; a reused
\* default location carries the externalId "1" and keeps it, so that it is
\* found by externalId from then on
C35_DefaultOnlyForFirstKey ==
  /\ OtherKeyKeepsDefault
  /\ LocationKeyKept
  /\ []OtherKeyCreates

C35_Witness ==
  /\ pc = "returned"
  /\ Len(rowLog) = 2
  /\ DoneRows = Rows
  /\ sheetData[1].locationId # FirstLocationKey
  /\ CountOps(1, "companyCreate") = 1
  /\ rowLog[1].locationsAfter = 2
  /\ \E l \in DefaultLocations(store) : store.locations[l].company = rowLog[1].companyId
  /\ rowLog[2].reuse
  /\ CountOps(2, "companyLocationUpdate") = 1
  /\ store.locations[rowLog[2].locationId].externalId = FirstLocationKey

\* the remote calls of row k whose variables carry a contact id
ContactCalls(k) == { n \in 1..Len(CallsOf(k)) : "contact" \in DOMAIN CallsOf(k)[n].args }

\* C36: no remote call carries a contact id with the prefix "existing-"
C36_SentinelNeverSent ==
  \A k \in Rows : \A n \in ContactCalls(k) :
    CallsOf(k)[n].args.contact.prefix # ExistingPrefix

C36_Witness ==
  /\ Len(rowLog) = 2
  /\ SentinelContact(1)
  /\ rowLog[1].status = "DONE"
  /\ ContactCalls(1) = {}
  /\ rowLog[2].status = "DONE"
  /\ ContactCalls(2) # {}

\* a value that is missing, not a string, or a string of blanks only
BlankId(value) == ~isString(value) \/ Core(value) = <<>>

\* no company of the store has a missing or blank externalId
NoBlankExternalId ==
  \A k \in 1..Len(store.companies) : ~BlankId(store.companies[k].externalId)

\* C37: a call of getOrCreateCompany with a missing, non-string or blank
\* companyId throws before any remote call is issued, and the store never
\* holds a company with a blank externalId
C37_BlankIdRefused ==
  /\ (pc \in {"callReturned", "callThrew"} /\ BlankId(sheetData[1].companyId)) =>
       /\ pc = "callThrew"
       /\ CallsOf(1) = <<>>
       /\ company = Null
  /\ NoBlankExternalId

C37_Witness ==
  /\ pc = "callThrew"
  /\ sheetData[1].companyId = Cell_blank
  /\ CallsOf(1) = <<>>
  /\ faultsLeft = MaxFaults
  /\ Len(store.companies) > 0

====
